---- MODULE Spec2Model ----
(***************************************************************************)
(* A model of the editing core of ratatui-code-editor: the History log     *)
(* (src/src/history.rs), the Code buffer with its edit transactions        *)
(* (src/src/code.rs), and the editor actions (src/src/actions.rs).         *)
(*                                                                         *)
(* Text is a sequence of one-character strings; a character offset k of    *)
(* the source is the position between elements k and k+1 of the sequence.  *)
(***************************************************************************)
EXTENDS Integers, Sequences, FiniteSets, TLC

VARIABLES
    content,            \* Code.content: the text (sequence of characters)
    lang,               \* Code.lang
    tree,               \* Code.tree is present
    parser,             \* Code.parser is present
    query,              \* Code.query is present
    applying_history,   \* Code.applying_history: edits are recorded while TRUE
    history,            \* Code.history: [index, max_items, edits]
    current_batch,      \* Code.current_batch: [edits, state_before, state_after]
    change_callback,    \* Code.change_callback is set
    notified,           \* number of calls of the change callback so far
    cursor,             \* Editor.cursor
    selection,          \* Editor.selection: Option<Selection>
    clipboard,          \* the clipboard text, an Option
    highlights_cache,   \* Editor's memo of highlight results: a set of [start, end, of]
    last_click,         \* Editor.last_click: Option<(Instant, usize)>
    last_last_click,    \* Editor.last_last_click: Option<(Instant, usize)>
    now,                \* the monotonic clock (Instant::now()), in milliseconds
    trail,              \* the last operations: <<[name, pre, ret], ...>>, newest last
    pushed,             \* number of History.push calls so far
    streak,             \* number of History.push calls since the last undo
    ghost               \* bookkeeping of the transaction in progress (SpecCode)

codeVars   == <<content, lang, tree, parser, query, applying_history,
                current_batch, change_callback, notified>>
editorVars == <<cursor, selection, clipboard, highlights_cache, last_click,
                last_last_click, now>>
histAux    == <<pushed, streak>>
vars == <<content, lang, tree, parser, query, applying_history, history,
          current_batch,
          change_callback, notified,
          cursor, selection, clipboard, highlights_cache, last_click,
          last_last_click, now,
          trail, pushed, streak, ghost>>

-----------------------------------------------------------------------------
(* Bounds of the model. *)

\* largest History capacity explored by SpecHistory
MaxCap == 3
\* number of pushes explored by SpecHistory beyond the capacity
ExtraPush == 2
\* number of insert/remove calls the client of SpecCode makes in all
MaxEdits == 3
\* number of actions other than Undo and Redo that Spec applies
MaxSteps == 1
\* number of times SpecToggle applies ToggleComment
MaxToggles == 2
\* largest number of extra indentation units SpecPaste prefixes a block with
MaxExtraUnits == 2
\* number of clicks SpecClick registers
MaxClicks == 3
\* number of mouse events SpecMouse delivers
MaxEvents == 3
\* number of highlight_interval calls SpecBuild makes
MaxQueries == 1
\* how far past the end of a line SpecIndent takes the column
ExtraCols == 1
\* number of movement actions SpecMove applies
MaxMoves == 1
\* number of calls SpecRecord makes on the Code
MaxCalls == 4
\* number of times SpecCache renders the text
MaxRenders == 1
\* number of movements with shift SpecShift applies
MaxShiftMoves == 3

\* History::new(1000) in Code::new
HistoryCapacity == 1000
\* Duration::from_millis(700) in Editor::mouse, in milliseconds
MaxInterval == 700

-----------------------------------------------------------------------------
(* Option values. *)

None == [some |-> FALSE]
Some(x) == [some |-> TRUE, val |-> x]

Min(a, b) == IF a <= b THEN a ELSE b
Max(a, b) == IF a >= b THEN a ELSE b

\* usize::saturating_sub
SatSub(a, b) == IF a >= b THEN a - b ELSE 0

Reverse(s) == [i \in 1..Len(s) |-> s[Len(s) + 1 - i]]

\* the last two operations are remembered
Remember(t, e) == IF Len(t) < 2 THEN Append(t, e) ELSE <<t[2], e>>

Last(t) == t[Len(t)]

-----------------------------------------------------------------------------
(* History (src/src/history.rs). *)

History_new(max_items) == [index |-> 0, max_items |-> max_items, edits |-> <<>>]

\* a push that forgets the redo tail
History_truncate_keep(h) == h.edits

\* while self.edits.len() > self.index { self.edits.pop_back(); }
History_truncate(h) ==
    IF Len(h.edits) > h.index THEN SubSeq(h.edits, 1, h.index) ELSE h.edits

\* a push that never evicts
History_evict_never(h) == h

\* if self.edits.len() == self.max_items { pop_front(); index -= 1 }
History_evict(h) ==
    IF Len(h.edits) = h.max_items
    THEN [h EXCEPT !.edits = Tail(h.edits), !.index = h.index - 1]
    ELSE h

History_push(h, batch) ==
    LET t == [h EXCEPT !.edits = History_truncate(h)]
        e == History_evict(t)
    IN  [e EXCEPT !.edits = Append(e.edits, batch), !.index = e.index + 1]

\* an undo that returns the batch above the new index
History_undo_off(h) ==
    IF h.index = 0
    THEN [h |-> h, ret |-> None]
    ELSE [h |-> [h EXCEPT !.index = h.index - 1],
          ret |-> IF h.index + 1 \in 1..Len(h.edits)
                  THEN Some(h.edits[h.index + 1]) ELSE None]

\* returns the History after the call and the Option<EditBatch> it returns
History_undo(h) ==
    IF h.index = 0
    THEN [h |-> h, ret |-> None]
    ELSE [h |-> [h EXCEPT !.index = h.index - 1],
          ret |-> IF h.index \in 1..Len(h.edits)
                  THEN Some(h.edits[h.index]) ELSE None]

History_redo(h) ==
    IF h.index >= Len(h.edits)
    THEN [h |-> h, ret |-> None]
    ELSE [h |-> [h EXCEPT !.index = h.index + 1],
          ret |-> Some(h.edits[h.index + 1])]

\* the batches that successive undo() calls return, until undo() returns none
RECURSIVE UndoSeq(_)
UndoSeq(h) ==
    LET r == History_undo(h)
    IN  IF r.ret.some THEN <<r.ret.val>> \o UndoSeq(r.h) ELSE <<>>

\* the batches that successive redo() calls return, until redo() returns none
RECURSIVE RedoSeq(_)
RedoSeq(h) ==
    LET r == History_redo(h)
    IN  IF r.ret.some THEN <<r.ret.val>> \o RedoSeq(r.h) ELSE <<>>


\* EditBatch::new
NoBatch == [edits |-> <<>>, state_before |-> None, state_after |-> None]

-----------------------------------------------------------------------------
(* The text: the operations of ropey::Rope that Code uses. The only line   *)
(* break of the model's alphabet is "\n".                                  *)

NL == "\n"

\* Rope::len_lines
len_lines(t) == Cardinality({i \in 1..Len(t) : t[i] = NL}) + 1

\* Rope::char_to_line, for offset <= len_chars
char_to_line(t, offset) == Cardinality({i \in 1..offset : t[i] = NL})

\* Rope::line_to_char, for row <= len_lines (row = len_lines gives len_chars)
line_to_char(t, row) ==
    IF row = 0 THEN 0
    ELSE IF row >= len_lines(t) THEN Len(t)
    ELSE CHOOSE i \in 1..Len(t) : t[i] = NL /\ char_to_line(t, i) = row

\* Rope::line: the line with its line break, if it has one
line(t, idx) == SubSeq(t, line_to_char(t, idx) + 1, line_to_char(t, idx + 1))

\* Rope::insert
rope_insert(t, from, text) == SubSeq(t, 1, from) \o text \o SubSeq(t, from + 1, Len(t))

\* Rope::remove
rope_remove(t, from, to) == SubSeq(t, 1, from) \o SubSeq(t, to + 1, Len(t))

-----------------------------------------------------------------------------
(* Code (src/src/code.rs). A Code value is the record                      *)
(* [content, lang, applying_history, history, current_batch].              *)

Code_new(text, l) ==
    [content |-> text, lang |-> l, tree |-> FALSE, parser |-> FALSE,
     query |-> FALSE, applying_history |-> TRUE,
     history |-> History_new(HistoryCapacity), current_batch |-> NoBatch,
     change_callback |-> FALSE, notified |-> 0]

Code_point(c, offset) ==
    LET row == char_to_line(c.content, offset)
    IN  [row |-> row, col |-> offset - line_to_char(c.content, row)]

Code_slice(c, start, end) == SubSeq(c.content, start + 1, end)

Code_len(c) == Len(c.content)

Code_line_len(c, idx) ==
    LET n == Len(line(c.content, idx))
    IN  IF idx = len_lines(c.content) - 1 THEN n ELSE SatSub(n, 1)

Code_tx(c) == [c EXCEPT !.current_batch = NoBatch]

EditState(offset, sel) == [offset |-> offset, selection |-> sel]

Code_set_state_before(c, offset, sel) ==
    [c EXCEPT !.current_batch.state_before = Some(EditState(offset, sel))]

Code_set_state_after(c, offset, sel) ==
    [c EXCEPT !.current_batch.state_after = Some(EditState(offset, sel))]

Code_set_change_callback(c) == [c EXCEPT !.change_callback = TRUE]

\* the end of a removed text that starts at (row, col): a line break starts
\* a new row at column 0, any other character advances the column
RECURSIVE calculate_end_position(_, _, _)
calculate_end_position(row, col, text) ==
    IF text = <<>> THEN [row |-> row, col |-> col]
    ELSE IF Head(text) = NL THEN calculate_end_position(row + 1, 0, Tail(text))
    ELSE calculate_end_position(row, col + 1, Tail(text))

\* the tuple notify_changes builds for one edit, its start taken by point()
\* in the text the Code holds when notify_changes runs
Code_change_of(c, edit) ==
    LET start == Code_point(c, edit.offset)
        end == calculate_end_position(start.row, start.col, edit.text)
    IN  IF edit.kind = "Insert"
        THEN <<start.row, start.col, start.row, start.col, edit.text>>
        ELSE <<start.row, start.col, end.row, end.col, <<>>>>

\* the vector notify_changes hands to the callback
Code_changes(c, edits) == [i \in 1..Len(edits) |-> Code_change_of(c, edits[i])]

\* Rope::char_to_line panics on an offset beyond the end of the text
Code_notify_panics(c, edits) ==
    /\ c.change_callback
    /\ \E i \in 1..Len(edits) : edits[i].offset > Len(c.content)

\* one call of the callback when it is set and there is a change to report
Code_notify_changes(c, edits) ==
    IF c.change_callback /\ edits # <<>>
    THEN [c EXCEPT !.notified = @ + 1]
    ELSE c

\* variant: commit() without the test of the edit list
Code_commit_always(c) ==
    LET n == [c EXCEPT !.notified = IF c.change_callback THEN @ + 1 ELSE @]
    IN  [n EXCEPT !.history = History_push(c.history, c.current_batch),
                  !.current_batch = NoBatch]

Code_commit(c) ==
    IF c.current_batch.edits # <<>>
    THEN LET n == Code_notify_changes(c, c.current_batch.edits)
         IN  [n EXCEPT !.history = History_push(c.history, c.current_batch),
                       !.current_batch = NoBatch]
    ELSE c

Insert(offset, text) == [kind |-> "Insert", offset |-> offset, text |-> text]
Remove(offset, text) == [kind |-> "Remove", offset |-> offset, text |-> text]

Code_insert(c, from, text) ==
    [c EXCEPT !.content = rope_insert(c.content, from, text),
              !.current_batch.edits =
                  IF c.applying_history THEN Append(@, Insert(from, text)) ELSE @]

Code_remove(c, from, to) ==
    [c EXCEPT !.content = rope_remove(c.content, from, to),
              !.current_batch.edits =
                  IF c.applying_history
                  THEN Append(@, Remove(from, SubSeq(c.content, from + 1, to)))
                  ELSE @]

\* an undo loop that inverts the edits in recording order
RECURSIVE UndoEditsForward(_, _, _)
UndoEditsForward(c, edits, i) ==
    IF i = 0 THEN c
    ELSE LET e == edits[Len(edits) + 1 - i]
             d == IF e.kind = "Insert"
                  THEN Code_remove(c, e.offset, e.offset + Len(e.text))
                  ELSE Code_insert(c, e.offset, e.text)
         IN  UndoEditsForward(d, edits, i - 1)

\* the loop of Code::undo: the edits from the last to the first, each inverted
RECURSIVE UndoEdits(_, _, _)
UndoEdits(c, edits, i) ==
    IF i = 0 THEN c
    ELSE LET e == edits[i]
             d == IF e.kind = "Insert"
                  THEN Code_remove(c, e.offset, e.offset + Len(e.text))
                  ELSE Code_insert(c, e.offset, e.text)
         IN  UndoEdits(d, edits, i - 1)

\* a redo loop that replays nothing
RedoEditsNone(c, edits, i) == c

\* the loop of Code::redo: the edits from the first to the last
RECURSIVE RedoEdits(_, _, _)
RedoEdits(c, edits, i) ==
    IF i > Len(edits) THEN c
    ELSE LET e == edits[i]
             d == IF e.kind = "Insert"
                  THEN Code_insert(c, e.offset, e.text)
                  ELSE Code_remove(c, e.offset, e.offset + Len(e.text))
         IN  RedoEdits(d, edits, i + 1)

\* Rope::insert and Rope::remove panic on an offset beyond the end of the
\* text: the undo loop meets such an edit
RECURSIVE UndoEditsPanic(_, _, _)
UndoEditsPanic(t, edits, i) ==
    IF i = 0 THEN FALSE
    ELSE LET e == edits[i]
         IN  IF e.kind = "Insert"
             THEN \/ e.offset + Len(e.text) > Len(t)
                  \/ UndoEditsPanic(rope_remove(t, e.offset, e.offset + Len(e.text)),
                                    edits, i - 1)
             ELSE \/ e.offset > Len(t)
                  \/ UndoEditsPanic(rope_insert(t, e.offset, e.text), edits, i - 1)

\* the redo loop meets such an edit
RECURSIVE RedoEditsPanic(_, _, _)
RedoEditsPanic(t, edits, i) ==
    IF i > Len(edits) THEN FALSE
    ELSE LET e == edits[i]
         IN  IF e.kind = "Insert"
             THEN \/ e.offset > Len(t)
                  \/ RedoEditsPanic(rope_insert(t, e.offset, e.text), edits, i + 1)
             ELSE \/ e.offset + Len(e.text) > Len(t)
                  \/ RedoEditsPanic(rope_remove(t, e.offset, e.offset + Len(e.text)),
                                    edits, i + 1)

Code_undo_panics(c) ==
    LET r == History_undo(c.history)
    IN  r.ret.some /\ UndoEditsPanic(c.content, r.ret.val.edits, Len(r.ret.val.edits))

Code_redo_panics(c) ==
    LET r == History_redo(c.history)
    IN  r.ret.some /\ RedoEditsPanic(c.content, r.ret.val.edits, 1)

\* variant: undo() that leaves recording enabled while it inverts the edits
Code_undo_recording(c) ==
    LET r == History_undo(c.history)
    IN  IF ~r.ret.some THEN [c |-> c, ret |-> None]
        ELSE LET c1 == [c EXCEPT !.history = r.h]
                 c2 == UndoEdits(c1, r.ret.val.edits, Len(r.ret.val.edits))
             IN  [c |-> [c2 EXCEPT !.applying_history = TRUE], ret |-> r.ret]

\* the Code after the call and the Option<EditBatch> the call returns
Code_undo(c) ==
    LET r == History_undo(c.history)
    IN  IF ~r.ret.some THEN [c |-> c, ret |-> None]
        ELSE LET c1 == [c EXCEPT !.history = r.h, !.applying_history = FALSE]
                 c2 == UndoEdits(c1, r.ret.val.edits, Len(r.ret.val.edits))
             IN  [c |-> [c2 EXCEPT !.applying_history = TRUE], ret |-> r.ret]

Code_redo(c) ==
    LET r == History_redo(c.history)
    IN  IF ~r.ret.some THEN [c |-> c, ret |-> None]
        ELSE LET c1 == [c EXCEPT !.history = r.h, !.applying_history = FALSE]
                 c2 == RedoEdits(c1, r.ret.val.edits, 1)
             IN  [c |-> [c2 EXCEPT !.applying_history = TRUE], ret |-> r.ret]

\* the Code value held in the variables, and its assignment
TheCode ==
    [content |-> content, lang |-> lang, tree |-> tree, parser |-> parser,
     query |-> query, applying_history |-> applying_history,
     history |-> history, current_batch |-> current_batch,
     change_callback |-> change_callback, notified |-> notified]

SetCode(c) ==
    /\ content' = c.content
    /\ lang' = c.lang
    /\ tree' = c.tree
    /\ parser' = c.parser
    /\ query' = c.query
    /\ applying_history' = c.applying_history
    /\ history' = c.history
    /\ current_batch' = c.current_batch
    /\ change_callback' = c.change_callback
    /\ notified' = c.notified

-----------------------------------------------------------------------------
(* Language tables and indentation (src/src/utils.rs, src/src/code.rs). *)

SP == " "
TAB == "\t"

\* char::is_whitespace, on the characters of the model
IsWhitespace(ch) == ch \in {SP, TAB, NL}

RECURSIVE Repeat(_, _)
Repeat(unit, n) == IF n = 0 THEN <<>> ELSE unit \o Repeat(unit, n - 1)

\* str::starts_with
StartsWith(t, prefix) ==
    /\ Len(prefix) <= Len(t)
    /\ SubSeq(t, 1, Len(prefix)) = prefix

\* utils::indent
indent(l) ==
    IF l \in {"rust", "python", "php", "toml", "c", "cpp", "zig", "kotlin",
              "erlang", "html", "sql"}
    THEN <<SP, SP, SP, SP>>
    ELSE IF l \in {"go", "c_sharp"} THEN <<TAB>>
    ELSE <<SP, SP>>

\* utils::comment
comment(l) ==
    IF l \in {"python", "shell"} THEN <<"#">>
    ELSE IF l = "lua" THEN <<"-", "-">>
    ELSE <<"/", "/">>

\* the languages Code::get_language has a parser for
ParserLanguages ==
    {"rust", "javascript", "typescript", "python", "go", "java", "c_sharp",
     "c", "cpp", "html", "css", "yaml", "json", "toml", "shell", "markdown",
     "markdown-inline"}

Code_get_language(l) == IF l \in ParserLanguages THEN Some(l) ELSE None

-----------------------------------------------------------------------------
(* Code::new with what it reads from outside (src/src/code.rs).  A        *)
(* highlight query text is "valid" or "malformed"; the bundled asset of a  *)
(* language is one of these, "missing", or "not_utf8".  Ok(v) and Err(e)   *)
(* are the two outcomes of a Result.                                       *)

Ok(v) == [ok |-> TRUE, val |-> v]
Err(e) == [ok |-> FALSE, err |-> e]

\* variant: a missing asset read as a valid query
Code_get_highlights_lenient(custom, asset) == Ok("valid")

\* custom: the entry of custom_highlights for the language, an Option
Code_get_highlights(custom, asset) ==
    IF custom.some THEN Ok(custom.val)
    ELSE IF asset = "missing" THEN Err("No highlights found")
    ELSE IF asset = "not_utf8" THEN Err("Utf8Error")
    ELSE Ok(asset)

\* Query::new of tree-sitter
Query_new(highlights) ==
    IF highlights = "valid" THEN Ok(TRUE) ELSE Err("QueryError")

\* injections: whether the parsers and queries of the injected languages
\* of the query can all be built
Code_init_injections(injections) ==
    IF injections THEN Ok(TRUE) ELSE Err("injection")

Code_new_from(text, l, custom, asset, injections) ==
    LET code == Code_new(text, l)
        highlights == Code_get_highlights(custom, asset)
    IN  IF Code_get_language(l).some
        THEN IF ~highlights.ok THEN Err(highlights.err)
             ELSE IF ~Query_new(highlights.val).ok
                  THEN Err(Query_new(highlights.val).err)
             ELSE IF ~Code_init_injections(injections).ok
                  THEN Err(Code_init_injections(injections).err)
             ELSE Ok([code EXCEPT !.tree = TRUE, !.parser = TRUE, !.query = TRUE])
        ELSE Ok(code)

\* variant: highlight_interval without the test of the range
Code_highlight_interval_unchecked(c, start, end) ==
    IF ~c.query \/ ~c.tree THEN [panic |-> FALSE, ret |-> "empty"]
    ELSE [panic |-> FALSE, ret |-> "highlight"]

\* ret is "empty" for vec![] and "highlight" for the list Code::highlight
\* computes from the tree and the query
Code_highlight_interval(c, start, end) ==
    IF start > end THEN [panic |-> TRUE, ret |-> "Invalid range"]
    ELSE IF ~c.query THEN [panic |-> FALSE, ret |-> "empty"]
    ELSE IF ~c.tree THEN [panic |-> FALSE, ret |-> "empty"]
    ELSE [panic |-> FALSE, ret |-> "highlight"]

\* the loop of utils::count_indent_units, after `count` whole units
RECURSIVE CountUnitsFrom(_, _, _, _)
CountUnitsFrom(ln, unit, max_col, count) ==
    LET col == count * Len(unit)
    IN  IF StartsWith(SubSeq(ln, col + 1, Len(ln)), unit)
        THEN IF max_col.some /\ col + Len(unit) >= max_col.val
             THEN count + 1
             ELSE CountUnitsFrom(ln, unit, max_col, count + 1)
        ELSE count

\* utils::count_indent_units
count_indent_units(ln, unit, max_col) ==
    IF unit = <<>> THEN 0 ELSE CountUnitsFrom(ln, unit, max_col, 0)

Code_indent(c) == indent(c.lang)

Code_comment(c) == comment(c.lang)

Code_indentation_level(c, ln, col) ==
    IF c.lang = "unknown" \/ c.lang = "" THEN 0
    ELSE count_indent_units(line(c.content, ln), Code_indent(c), Some(col))

Code_is_only_indentation_before(c, r, col) ==
    IF c.lang = "unknown" \/ c.lang = "" THEN FALSE
    ELSE IF r >= len_lines(c.content) \/ col = 0 THEN FALSE
    ELSE LET ln == line(c.content, r)
             unit == Code_indent(c)
         IN  IF unit = <<>>
             THEN \A i \in 1..Min(col, Len(ln)) : IsWhitespace(ln[i])
             ELSE count_indent_units(ln, unit, Some(col)) * Len(unit) >= col

Code_find_indent_at_line_start(c, line_idx) ==
    IF line_idx >= len_lines(c.content) THEN None
    ELSE LET unit == Code_indent(c)
         IN  IF unit = <<>> THEN None
             ELSE LET col == count_indent_units(line(c.content, line_idx), unit, None)
                             * Len(unit)
                  IN  IF col > 0 THEN Some(col) ELSE None

Code_line_boundaries(c, pos) ==
    IF pos >= Len(c.content) THEN [start |-> pos, end |-> pos]
    ELSE LET ln == char_to_line(c.content, pos)
             start == line_to_char(c.content, ln)
         IN  [start |-> start, end |-> start + Len(line(c.content, ln))]

-----------------------------------------------------------------------------
(* Code::smart_paste and the string functions of Rust it uses. *)

\* str::trim_start
RECURSIVE trim_start(_)
trim_start(t) ==
    IF t # <<>> /\ IsWhitespace(t[1]) THEN trim_start(Tail(t)) ELSE t

\* str::trim().is_empty()
IsBlank(t) == \A i \in 1..Len(t) : IsWhitespace(t[i])

\* the pieces of t between its line breaks, the piece after the last one included
RECURSIVE SplitNL(_, _)
SplitNL(t, cur) ==
    IF t = <<>> THEN <<cur>>
    ELSE IF t[1] = NL THEN <<cur>> \o SplitNL(Tail(t), <<>>)
    ELSE SplitNL(Tail(t), Append(cur, t[1]))

\* str::lines: a final line break does not start another line
lines(t) ==
    LET pieces == SplitNL(t, <<>>)
    IN  IF Last(pieces) = <<>> THEN SubSeq(pieces, 1, Len(pieces) - 1) ELSE pieces

\* [String]::join("\n")
RECURSIVE JoinNL(_)
JoinNL(ls) ==
    IF ls = <<>> THEN <<>>
    ELSE IF Len(ls) = 1 THEN ls[1]
    ELSE ls[1] \o <<NL>> \o JoinNL(Tail(ls))

\* the number of leading indentation units of a pasted line
RECURSIVE LineLevel(_, _)
LineLevel(rest, unit) ==
    IF StartsWith(rest, unit)
    THEN 1 + LineLevel(SubSeq(rest, Len(unit) + 1, Len(rest)), unit)
    ELSE 0

\* isize::clamp(-1, 1)
Clamp1(d) == IF d < -1 THEN -1 ELSE IF d > 1 THEN 1 ELSE d

\* a loop that re-indents every line to the level it has in the block
RECURSIVE PasteLinesAbsolute(_, _, _, _, _)
PasteLinesAbsolute(ls, unit, i, prev_nonempty_level, prev_line_level_in_block) ==
    IF i > Len(ls) THEN <<>>
    ELSE IF IsBlank(ls[i])
         THEN <<ls[i]>> \o PasteLinesAbsolute(ls, unit, i + 1, prev_nonempty_level,
                                              prev_line_level_in_block)
         ELSE LET lvl == LineLevel(ls[i], unit)
              IN  <<Repeat(unit, lvl) \o trim_start(ls[i])>>
                  \o PasteLinesAbsolute(ls, unit, i + 1, lvl, lvl)

\* the loop of smart_paste over lines i..; result lines in order
RECURSIVE PasteLines(_, _, _, _, _)
PasteLines(ls, unit, i, prev_nonempty_level, prev_line_level_in_block) ==
    IF i > Len(ls) THEN <<>>
    ELSE IF IsBlank(ls[i])
         THEN <<ls[i]>> \o PasteLines(ls, unit, i + 1, prev_nonempty_level,
                                      prev_line_level_in_block)
         ELSE LET lvl == LineLevel(ls[i], unit)
                  diff == Clamp1(lvl - prev_line_level_in_block)
                  new_level == Max(prev_nonempty_level + diff, 0)
              IN  <<Repeat(unit, new_level) \o trim_start(ls[i])>>
                  \o PasteLines(ls, unit, i + 1, new_level, lvl)

\* variant: the first line emitted as it is in the block
PasteTextUntrimmed(text, unit, base_level) ==
    LET ls == lines(text)
    IN  JoinNL(<<ls[1]>>
               \o PasteLines(ls, unit, 2, base_level, LineLevel(ls[1], unit)))

\* the text smart_paste inserts for `text` at a place of level base_level
PasteText(text, unit, base_level) ==
    LET ls == lines(text)
    IN  JoinNL(<<trim_start(ls[1])>>
               \o PasteLines(ls, unit, 2, base_level, LineLevel(ls[1], unit)))

\* the Code after the call and the number of characters it reports inserted
Code_smart_paste(c, offset, text) ==
    LET p == Code_point(c, offset)
        base_level == Code_indentation_level(c, p.row, p.col)
        unit == Code_indent(c)
    IN  IF unit = <<>>
        THEN [c |-> Code_insert(c, offset, text), inserted |-> Len(text)]
        ELSE IF lines(text) = <<>>
        THEN [c |-> c, inserted |-> 0]
        ELSE LET to_insert == PasteText(text, unit, base_level)
             IN  [c |-> Code_insert(c, offset, to_insert), inserted |-> Len(to_insert)]

-----------------------------------------------------------------------------
(* Selection (src/src/selection.rs). *)

Selection_new(a, b) == [start |-> Min(a, b), end |-> Max(a, b)]

\* variant: the anchor and the cursor taken as they come
Selection_unordered(anchor, cur) == [start |-> anchor, end |-> cur]

Selection_from_anchor_and_cursor(anchor, cur) ==
    IF anchor <= cur THEN [start |-> anchor, end |-> cur]
    ELSE [start |-> cur, end |-> anchor]

Selection_is_empty(sel) == Max(sel.start, sel.end) = Min(sel.start, sel.end)

Selection_sorted(sel) ==
    IF sel.start <= sel.end THEN [start |-> sel.start, end |-> sel.end]
    ELSE [start |-> sel.end, end |-> sel.start]

\* `if let Some(sel) = &selection && !sel.is_empty()`
ActiveSel(sel) == sel.some /\ ~Selection_is_empty(sel.val)

-----------------------------------------------------------------------------
(* Editor: an Editor value is the record [code, cursor, selection,         *)
(* clipboard].                                                             *)

Editor_fit_cursor(e) ==
    LET cur == Min(e.cursor, Len(e.code.content))
        p == Code_point(e.code, cur)
    IN  IF p.col > Code_line_len(e.code, p.row)
        THEN [e EXCEPT !.cursor = line_to_char(e.code.content, p.row)
                                  + Code_line_len(e.code, p.row)]
        ELSE [e EXCEPT !.cursor = cur]

Editor_set_cursor(e, cur) == Editor_fit_cursor([e EXCEPT !.cursor = cur])

Editor_set_selection(e, sel) == [e EXCEPT !.selection = sel]

\* variant: the anchor taken to be the start of the selection
Editor_selection_anchor_start(e) ==
    IF e.selection.some THEN e.selection.val.start ELSE e.cursor

Editor_selection_anchor(e) ==
    IF e.selection.some
    THEN IF e.cursor = e.selection.val.start
         THEN e.selection.val.end ELSE e.selection.val.start
    ELSE e.cursor

Editor_set_clipboard(e, text) == [e EXCEPT !.clipboard = Some(text)]

Editor_get_clipboard(e) == e.clipboard

\* the whole memo is dropped
Editor_reset_highlight_cache(e) == [e EXCEPT !.highlights_cache = {}]

\* the highlights of start..end for the renderer: the memoized result of
\* that range if there is one, and otherwise the result computed on the
\* current text, which is memoized
Editor_cached_highlights(e, start, end) ==
    IF \E h \in e.highlights_cache : h.start = start /\ h.end = end
    THEN e
    ELSE [e EXCEPT !.highlights_cache =
              @ \cup {[start |-> start, end |-> end, of |-> e.code.content]}]

TheEditor ==
    [code |-> TheCode, cursor |-> cursor, selection |-> selection,
     clipboard |-> clipboard, highlights_cache |-> highlights_cache,
     last_click |-> last_click, last_last_click |-> last_last_click]

SetEditor(e) ==
    /\ SetCode(e.code)
    /\ cursor' = e.cursor
    /\ selection' = e.selection
    /\ clipboard' = e.clipboard
    /\ highlights_cache' = e.highlights_cache
    /\ last_click' = e.last_click
    /\ last_last_click' = e.last_last_click

-----------------------------------------------------------------------------
(* The actions (src/src/actions.rs), each as the Editor after apply(). *)

\* a tail that leaves the memoized highlights in place
Finish_keeps_cache(e, c, cur, sel) ==
    Editor_set_selection(Editor_set_cursor([e EXCEPT !.code = c], cur), sel)

\* the tail every mutating action ends with
Finish(e, c, cur, sel) ==
    Editor_reset_highlight_cache(
        Editor_set_selection(Editor_set_cursor([e EXCEPT !.code = c], cur), sel))

\* an InsertText that commits the removal of the selection on its own
InsertText_two_batches(e, text) ==
    LET c0 == Code_set_state_before(Code_tx(e.code), e.cursor, e.selection)
        sel == Selection_sorted(e.selection.val)
        c1 == IF ActiveSel(e.selection)
              THEN Code_commit(Code_remove(c0, sel.start, sel.end)) ELSE c0
        cur1 == IF ActiveSel(e.selection) THEN sel.start ELSE e.cursor
        c2 == Code_insert(c1, cur1, text)
        cur2 == cur1 + Len(text)
        c3 == Code_commit(Code_set_state_after(c2, cur2, None))
    IN  Finish(e, c3, cur2, None)

InsertText_apply(e, text) ==
    LET c0 == Code_set_state_before(Code_tx(e.code), e.cursor, e.selection)
        sel == Selection_sorted(e.selection.val)
        c1 == IF ActiveSel(e.selection) THEN Code_remove(c0, sel.start, sel.end) ELSE c0
        cur1 == IF ActiveSel(e.selection) THEN sel.start ELSE e.cursor
        c2 == Code_insert(c1, cur1, text)
        cur2 == cur1 + Len(text)
        c3 == Code_commit(Code_set_state_after(c2, cur2, None))
    IN  Finish(e, c3, cur2, None)

InsertNewline_apply(e) ==
    LET p == Code_point(e.code, e.cursor)
        indent_level == Code_indentation_level(e.code, p.row, p.col)
        indent_text == Repeat(Code_indent(e.code), indent_level)
    IN  InsertText_apply(e, <<NL>> \o indent_text)

Delete_apply(e) ==
    LET c0 == Code_set_state_before(Code_tx(e.code), e.cursor, e.selection)
        sel == Selection_sorted(e.selection.val)
        p == Code_point(c0, e.cursor)
        r == IF ActiveSel(e.selection)
             THEN [c |-> Code_remove(c0, sel.start, sel.end), cur |-> sel.start,
                   sel |-> None]
             ELSE IF e.cursor > 0
             THEN IF Code_is_only_indentation_before(c0, p.row, p.col)
                  THEN [c |-> Code_remove(c0, e.cursor - p.col, e.cursor),
                        cur |-> e.cursor - p.col, sel |-> e.selection]
                  ELSE [c |-> Code_remove(c0, e.cursor - 1, e.cursor),
                        cur |-> e.cursor - 1, sel |-> e.selection]
             ELSE [c |-> c0, cur |-> e.cursor, sel |-> e.selection]
        c2 == Code_commit(Code_set_state_after(r.c, r.cur, r.sel))
    IN  Finish(e, c2, r.cur, r.sel)

\* the rows an action handles: those of the selection, or the cursor's
lines_to_handle(e) ==
    IF ActiveSel(e.selection)
    THEN LET sel == Selection_sorted(e.selection.val)
         IN  [first |-> Code_point(e.code, sel.start).row,
              last |-> Code_point(e.code, sel.end).row]
    ELSE [first |-> Code_point(e.code, e.cursor).row,
          last |-> Code_point(e.code, e.cursor).row]

\* step 4 of ToggleComment: does the row start with the comment marker
has_comment(c, line_idx) ==
    LET line_start == line_to_char(c.content, line_idx)
        comment_len == Len(Code_comment(c))
    IN  /\ line_start + comment_len <= line_start + Code_line_len(c, line_idx)
        /\ Code_slice(c, line_start, line_start + comment_len) = Code_comment(c)

\* step 5 of ToggleComment, rows `row` down to `first`: [c, n] with n the
\* number of markers added or removed
RECURSIVE ToggleLines(_, _, _, _, _)
ToggleLines(c, first, row, all_have_comment, n) ==
    IF row < first THEN [c |-> c, n |-> n]
    ELSE LET start == line_to_char(c.content, row)
             comment_len == Len(Code_comment(c))
         IN  IF all_have_comment
             THEN IF Code_slice(c, start, start + comment_len) = Code_comment(c)
                  THEN ToggleLines(Code_remove(c, start, start + comment_len),
                                   first, row - 1, all_have_comment, n + 1)
                  ELSE ToggleLines(c, first, row - 1, all_have_comment, n)
             ELSE ToggleLines(Code_insert(c, start, Code_comment(c)),
                              first, row - 1, all_have_comment, n + 1)

ToggleComment_apply(e) ==
    LET selection_anchor == Editor_selection_anchor(e)
        c0 == Code_set_state_before(Code_tx(e.code), e.cursor, e.selection)
        comment_len == Len(Code_comment(c0))
        rows == lines_to_handle(e)
        all_have_comment == \A r \in rows.first..rows.last : has_comment(c0, r)
        t == ToggleLines(c0, rows.first, rows.last, all_have_comment, 0)
        is_forward == selection_anchor = Selection_sorted(e.selection.val).start
        cur == IF ActiveSel(e.selection)
               THEN IF is_forward
                    THEN IF ~all_have_comment THEN e.cursor + comment_len * t.n
                         ELSE SatSub(e.cursor, comment_len * t.n)
                    ELSE IF ~all_have_comment THEN e.cursor + comment_len
                         ELSE SatSub(e.cursor, comment_len)
               ELSE IF ~all_have_comment THEN e.cursor + comment_len
                    ELSE SatSub(e.cursor, comment_len)
        anchor == IF is_forward
                  THEN IF ~all_have_comment THEN selection_anchor + comment_len
                       ELSE SatSub(selection_anchor, comment_len)
                  ELSE IF ~all_have_comment THEN selection_anchor + comment_len * t.n
                       ELSE SatSub(selection_anchor, comment_len * t.n)
        sel == IF ActiveSel(e.selection)
               THEN Some(Selection_from_anchor_and_cursor(anchor, cur))
               ELSE e.selection
        c2 == Code_commit(Code_set_state_after(t.c, cur, sel))
    IN  Finish(e, c2, cur, sel)

\* step 4 of Indent, rows `row` down to `first`
RECURSIVE IndentLines(_, _, _, _)
IndentLines(c, first, row, n) ==
    IF row < first THEN [c |-> c, n |-> n]
    ELSE IndentLines(Code_insert(c, line_to_char(c.content, row), Code_indent(c)),
                     first, row - 1, n + 1)

Indent_apply(e) ==
    LET selection_anchor == Editor_selection_anchor(e)
        c0 == Code_set_state_before(Code_tx(e.code), e.cursor, e.selection)
        indent_len == Len(Code_indent(c0))
        rows == lines_to_handle(e)
        t == IndentLines(c0, rows.first, rows.last, 0)
        is_forward == selection_anchor = Selection_sorted(e.selection.val).start
        cur == IF ActiveSel(e.selection)
               THEN IF is_forward THEN e.cursor + indent_len * t.n
                    ELSE e.cursor + indent_len
               ELSE e.cursor + indent_len
        anchor == IF is_forward THEN selection_anchor + indent_len
                  ELSE selection_anchor + indent_len * t.n
        sel == IF ActiveSel(e.selection)
               THEN Some(Selection_from_anchor_and_cursor(anchor, cur))
               ELSE e.selection
        c2 == Code_commit(Code_set_state_after(t.c, cur, sel))
    IN  Finish(e, c2, cur, sel)

\* step 4 of UnIndent, rows `row` down to `first`
RECURSIVE UnIndentLines(_, _, _, _)
UnIndentLines(c, first, row, n) ==
    IF row < first THEN [c |-> c, n |-> n]
    ELSE LET indent_cols == Code_find_indent_at_line_start(c, row)
             remove_count == Min(indent_cols.val, Len(Code_indent(c)))
             line_start == line_to_char(c.content, row)
         IN  IF indent_cols.some /\ remove_count > 0
             THEN UnIndentLines(Code_remove(c, line_start, line_start + remove_count),
                                first, row - 1, n + 1)
             ELSE UnIndentLines(c, first, row - 1, n)

UnIndent_apply(e) ==
    LET selection_anchor == Editor_selection_anchor(e)
        c0 == Code_set_state_before(Code_tx(e.code), e.cursor, e.selection)
        indent_len == Len(Code_indent(c0))
        rows == lines_to_handle(e)
        t == UnIndentLines(c0, rows.first, rows.last, 0)
        is_forward == selection_anchor = Selection_sorted(e.selection.val).start
        cur == IF ActiveSel(e.selection)
               THEN IF is_forward THEN SatSub(e.cursor, indent_len * t.n)
                    ELSE SatSub(e.cursor, indent_len)
               ELSE SatSub(e.cursor, indent_len * t.n)
        anchor == IF is_forward THEN SatSub(selection_anchor, indent_len)
                  ELSE SatSub(selection_anchor, indent_len * t.n)
        sel == IF ActiveSel(e.selection)
               THEN Some(Selection_from_anchor_and_cursor(anchor, cur))
               ELSE e.selection
        c2 == Code_commit(Code_set_state_after(t.c, cur, sel))
    IN  Finish(e, c2, cur, sel)

SelectAll_apply(e) ==
    Editor_set_selection(e, Some(Selection_new(0, Len(e.code.content))))

\* str::trim_end_matches('\n')
RECURSIVE trim_end_newlines(_)
trim_end_newlines(t) ==
    IF t # <<>> /\ Last(t) = NL THEN trim_end_newlines(SubSeq(t, 1, Len(t) - 1)) ELSE t

\* Rope::slice panics on a range that ends beyond the text: the selection
\* Duplicate slices may be one an earlier action left behind on a longer text
Duplicate_panics(e) ==
    e.selection.some /\ e.selection.val.end > Code_len(e.code)

Duplicate_apply(e) ==
    LET c0 == Code_set_state_before(Code_tx(e.code), e.cursor, e.selection)
        b == Code_line_boundaries(c0, e.cursor)
        line_text == Code_slice(c0, b.start, b.end)
        to_insert == IF line_text # <<>> /\ Last(line_text) = NL
                     THEN line_text ELSE Append(line_text, NL)
        r == IF e.selection.some
             THEN LET text == Code_slice(c0, e.selection.val.start, e.selection.val.end)
                  IN  [c |-> Code_insert(c0, e.selection.val.end, text),
                       cur |-> e.selection.val.end + Len(text)]
             ELSE [c |-> Code_insert(c0, b.end, to_insert),
                   cur |-> b.end + Min(e.cursor - b.start,
                                       Len(trim_end_newlines(to_insert)))]
        c2 == Code_commit(Code_set_state_after(r.c, r.cur, None))
    IN  Finish(e, c2, r.cur, None)

DeleteLine_apply(e) ==
    LET b == Code_line_boundaries(e.code, e.cursor)
    IN  IF b.start = b.end /\ b.start = Code_len(e.code) THEN e
        ELSE LET c0 == Code_set_state_before(Code_tx(e.code), e.cursor, e.selection)
                 c1 == Code_remove(c0, b.start, b.end)
                 c2 == Code_commit(Code_set_state_after(c1, b.start, None))
             IN  Finish(e, c2, b.start, None)

Cut_apply(e) ==
    IF ~ActiveSel(e.selection) THEN e
    ELSE LET sel == e.selection.val
             e1 == Editor_set_clipboard(e, Code_slice(e.code, sel.start, sel.end))
             c0 == Code_set_state_before(Code_tx(e1.code), e.cursor, e.selection)
             c1 == Code_remove(c0, sel.start, sel.end)
             c2 == Code_commit(Code_set_state_after(c1, sel.start, None))
         IN  Finish(e1, c2, sel.start, None)

Copy_apply(e) ==
    IF ~ActiveSel(e.selection) THEN e
    ELSE Editor_set_clipboard(e, Code_slice(e.code, e.selection.val.start,
                                            e.selection.val.end))

\* variant: the cursor advanced by the length of the clipboard text
Paste_by_clipboard_length(e) ==
    LET got == Editor_get_clipboard(e)
    IN  IF ~got.some \/ got.val = <<>> THEN e
        ELSE LET c0 == Code_set_state_before(Code_tx(e.code), e.cursor, e.selection)
                 sel == Selection_sorted(e.selection.val)
                 c1 == IF ActiveSel(e.selection)
                       THEN Code_remove(c0, sel.start, sel.end) ELSE c0
                 cur1 == IF ActiveSel(e.selection) THEN sel.start ELSE e.cursor
                 sel1 == IF ActiveSel(e.selection) THEN None ELSE e.selection
                 p == Code_smart_paste(c1, cur1, got.val)
                 cur2 == cur1 + Len(got.val)
                 c2 == Code_commit(Code_set_state_after(p.c, cur2, sel1))
             IN  Finish(e, c2, cur2, sel1)

Paste_apply(e) ==
    LET got == Editor_get_clipboard(e)
    IN  IF ~got.some \/ got.val = <<>> THEN e
        ELSE LET c0 == Code_set_state_before(Code_tx(e.code), e.cursor, e.selection)
                 sel == Selection_sorted(e.selection.val)
                 c1 == IF ActiveSel(e.selection)
                       THEN Code_remove(c0, sel.start, sel.end) ELSE c0
                 cur1 == IF ActiveSel(e.selection) THEN sel.start ELSE e.cursor
                 sel1 == IF ActiveSel(e.selection) THEN None ELSE e.selection
                 p == Code_smart_paste(c1, cur1, got.val)
                 cur2 == cur1 + p.inserted
                 c2 == Code_commit(Code_set_state_after(p.c, cur2, sel1))
             IN  Finish(e, c2, cur2, sel1)

\* step 5 of Undo: the cursor inferred from the edits, last edit first
RECURSIVE UndoInfer(_, _, _)
UndoInfer(e, edits, i) ==
    IF i = 0 THEN e
    ELSE LET ed == edits[i]
         IN  UndoInfer(Editor_set_cursor(e, IF ed.kind = "Insert" THEN ed.offset
                                            ELSE ed.offset + Len(ed.text)),
                       edits, i - 1)

\* step 5 of Redo: the cursor inferred from the edits, first edit first
RECURSIVE RedoInfer(_, _, _)
RedoInfer(e, edits, i) ==
    IF i > Len(edits) THEN e
    ELSE LET ed == edits[i]
         IN  RedoInfer(Editor_set_cursor(e, IF ed.kind = "Insert"
                                            THEN ed.offset + Len(ed.text)
                                            ELSE ed.offset),
                       edits, i + 1)

\* an Undo that drops the selection when there is nothing to undo
Undo_drops_selection(e) ==
    LET r == Code_undo(e.code)
        e1 == Editor_reset_highlight_cache([e EXCEPT !.code = r.c])
    IN  IF ~r.ret.some THEN [e |-> Editor_set_selection(e1, None), ret |-> None]
        ELSE [e |-> Editor_set_selection(
                        Editor_set_cursor(e1, r.ret.val.state_before.val.offset),
                        r.ret.val.state_before.val.selection),
              ret |-> r.ret]

\* the Editor after Undo::apply, and the batch Code::undo returned
Undo_apply(e) ==
    LET r == Code_undo(e.code)
        e1 == Editor_reset_highlight_cache([e EXCEPT !.code = r.c])
    IN  IF ~r.ret.some THEN [e |-> e1, ret |-> None]
        ELSE IF r.ret.val.state_before.some
        THEN [e |-> Editor_set_selection(
                        Editor_set_cursor(e1, r.ret.val.state_before.val.offset),
                        r.ret.val.state_before.val.selection),
              ret |-> r.ret]
        ELSE [e |-> UndoInfer(e1, r.ret.val.edits, Len(r.ret.val.edits)), ret |-> r.ret]

\* a Redo that restores the snapshot taken before the batch
Redo_restores_before(e) ==
    LET r == Code_redo(e.code)
        e1 == Editor_reset_highlight_cache([e EXCEPT !.code = r.c])
    IN  IF ~r.ret.some THEN [e |-> e1, ret |-> None]
        ELSE [e |-> Editor_set_selection(
                        Editor_set_cursor(e1, r.ret.val.state_before.val.offset),
                        r.ret.val.state_before.val.selection),
              ret |-> r.ret]

\* the Editor after Redo::apply, and the batch Code::redo returned
Redo_apply(e) ==
    LET r == Code_redo(e.code)
        e1 == Editor_reset_highlight_cache([e EXCEPT !.code = r.c])
    IN  IF ~r.ret.some THEN [e |-> e1, ret |-> None]
        ELSE IF r.ret.val.state_after.some
        THEN [e |-> Editor_set_selection(
                        Editor_set_cursor(e1, r.ret.val.state_after.val.offset),
                        r.ret.val.state_after.val.selection),
              ret |-> r.ret]
        ELSE [e |-> RedoInfer(e1, r.ret.val.edits, 1), ret |-> r.ret]

-----------------------------------------------------------------------------
(* The movement actions (src/src/actions.rs). *)

Editor_clear_selection(e) == [e EXCEPT !.selection = None]

\* the selection from its anchor to the new cursor
Editor_extend_selection(e, new_cursor) ==
    [e EXCEPT !.selection =
        Some(Selection_from_anchor_and_cursor(Editor_selection_anchor(e), new_cursor))]

\* the cursor moved to new_cursor, by a movement with or without shift
MovedTo(e, new_cursor, shift) ==
    Editor_set_cursor(IF shift THEN Editor_extend_selection(e, new_cursor)
                      ELSE Editor_clear_selection(e), new_cursor)

MoveRight_apply(e, shift) ==
    IF ~shift /\ ActiveSel(e.selection)
    THEN Editor_clear_selection(Editor_set_cursor(e, Selection_sorted(e.selection.val).end))
    ELSE IF e.cursor < Code_len(e.code) THEN MovedTo(e, e.cursor + 1, shift)
    ELSE e

MoveLeft_apply(e, shift) ==
    IF ~shift /\ ActiveSel(e.selection)
    THEN Editor_clear_selection(Editor_set_cursor(e, Selection_sorted(e.selection.val).start))
    ELSE IF e.cursor > 0 THEN MovedTo(e, SatSub(e.cursor, 1), shift)
    ELSE e

MoveUp_apply(e, shift) ==
    LET p == Code_point(e.code, e.cursor)
        prev_start == line_to_char(e.code.content, p.row - 1)
        prev_len == Code_line_len(e.code, p.row - 1)
    IN  IF p.row = 0 THEN e
        ELSE MovedTo(e, prev_start + Min(p.col, prev_len), shift)

MoveDown_apply(e, shift) ==
    LET p == Code_point(e.code, e.cursor)
        next_start == line_to_char(e.code.content, p.row + 1)
        next_len == Code_line_len(e.code, p.row + 1)
    IN  IF p.row + 1 >= len_lines(e.code.content) THEN e
        ELSE MovedTo(e, next_start + Min(p.col, next_len), shift)

-----------------------------------------------------------------------------
(* Clicks (src/src/click.rs).  A click is [t, p]: the instant and the      *)
(* offset; a ClickTracker is [last, prev, max_dt].                         *)

Click(t, p) == [t |-> t, p |-> p]

ClickTracker_new(max_dt) == [last |-> None, prev |-> None, max_dt |-> max_dt]

\* Instant::duration_since: zero when `earlier` is later than `self`
duration_since(later, earlier) == SatSub(later, earlier)

\* the kind of the click at `cur` at instant `at` after the clicks last, prev
ClickKindOf(last, prev, max_dt, cur, at) ==
    LET dbl == /\ last.some
               /\ last.val.p = cur
               /\ duration_since(at, last.val.t) < max_dt
        tpl == /\ last.some
               /\ prev.some
               /\ prev.val.p = cur
               /\ last.val.p = cur
               /\ duration_since(at, prev.val.t) < max_dt
               /\ duration_since(last.val.t, prev.val.t) < max_dt
    IN  IF tpl THEN "Triple" ELSE IF dbl THEN "Double" ELSE "Single"

ClickTracker_register(t, cur, at) ==
    [t    |-> [t EXCEPT !.prev = t.last, !.last = Some(Click(at, cur))],
     kind |-> ClickKindOf(t.last, t.prev, t.max_dt, cur, at)]

-----------------------------------------------------------------------------
(* Editor::mouse (src/src/editor.rs) with the view unscrolled (offset_x =  *)
(* offset_y = 0, as Editor::new leaves them).  A mouse position is the row *)
(* and the column of the text area it points at; every character of the    *)
(* model is one column wide.                                               *)

\* char::is_alphanumeric on the characters of the model
Alphanumeric == {"a", "b", "c", "x", "1"}

is_word_char(ch) == ch \in Alphanumeric \/ ch = "_"

RECURSIVE WordStart(_, _)
WordStart(t, start) ==
    IF start > 0 /\ is_word_char(t[start])
    THEN WordStart(t, start - 1) ELSE start

RECURSIVE WordEnd(_, _)
WordEnd(t, end) ==
    IF end < Len(t) /\ is_word_char(t[end + 1])
    THEN WordEnd(t, end + 1) ELSE end

Code_word_boundaries(c, pos) ==
    IF pos >= Len(c.content) THEN [start |-> pos, end |-> pos]
    ELSE [start |-> WordStart(c.content, pos), end |-> WordEnd(c.content, pos)]

\* None for a row below the last line (or a position outside the area)
Editor_cursor_from_mouse(e, row, col) ==
    IF row >= len_lines(e.code.content) THEN None
    ELSE LET line_start_char == line_to_char(e.code.content, row)
             line_len == Code_line_len(e.code, row)
         IN  Some(line_start_char + Min(col, line_len))

\* MouseEventKind::Down(MouseButton::Left) at instant `at`
Editor_mouse_down(e, row, col, at) ==
    LET pos == Editor_cursor_from_mouse(e, row, col)
        cur == pos.val
        kind == ClickKindOf(e.last_click, e.last_last_click, MaxInterval, cur, at)
        b == IF kind = "Triple" THEN Code_line_boundaries(e.code, cur)
             ELSE IF kind = "Double" THEN Code_word_boundaries(e.code, cur)
             ELSE [start |-> cur, end |-> cur]
    IN  IF pos.some
        THEN [e EXCEPT !.selection = Some(Selection_from_anchor_and_cursor(b.start, b.end)),
                       !.cursor = b.end,
                       !.last_last_click = e.last_click,
                       !.last_click = Some(Click(at, cur))]
        ELSE e

\* MouseEventKind::Drag(MouseButton::Left)
Editor_mouse_drag(e, row, col) ==
    LET pos == Editor_cursor_from_mouse(e, row, col)
    IN  IF pos.some
        THEN [e EXCEPT !.selection = Some(Selection_from_anchor_and_cursor(
                                              Editor_selection_anchor(e), pos.val)),
                       !.cursor = pos.val]
        ELSE e

-----------------------------------------------------------------------------
(* Values of the variables a specification does not use. *)

\* no change callback, as Code::new leaves it
NoSink ==
    /\ change_callback = FALSE
    /\ notified = 0

\* tree, parser and query as Code::new sets them when every asset is there
Parsed ==
    /\ tree = Code_get_language(lang).some
    /\ parser = Code_get_language(lang).some
    /\ query = Code_get_language(lang).some

IdleCode ==
    /\ content = <<>>
    /\ lang = ""
    /\ Parsed
    /\ applying_history = TRUE
    /\ current_batch = NoBatch
    /\ NoSink

\* nothing memoized yet
NoCache == highlights_cache = {}

\* no click yet, the clock at its origin
NoClicks ==
    /\ last_click = None
    /\ last_last_click = None
    /\ now = 0

IdleEditor ==
    /\ cursor = 0
    /\ selection = None
    /\ clipboard = None
    /\ NoCache
    /\ NoClicks

NoGhost == [window |-> "idle", txText |-> <<>>, commitText |-> <<>>, texts |-> <<>>,
            calls |-> 0, events |-> 0]

IdleHistAux ==
    /\ pushed = 0
    /\ streak = 0

-----------------------------------------------------------------------------
(* SpecHistory: a History of any capacity 1..MaxCap under push/undo/redo.  *)
(* A pushed batch is named by the ordinal of its push.                     *)

InitHistory ==
    /\ IdleCode
    /\ IdleEditor
    /\ \E n \in 1..MaxCap : history = History_new(n)
    /\ trail = <<>>
    /\ pushed = 0
    /\ streak = 0
    /\ ghost = NoGhost

HPush ==
    /\ pushed < history.max_items + ExtraPush
    /\ history' = History_push(history, pushed + 1)
    /\ pushed' = pushed + 1
    /\ streak' = streak + 1
    /\ trail' = Remember(trail, [name |-> "push", pre |-> history, ret |-> None])
    /\ UNCHANGED <<codeVars, editorVars, ghost>>

HUndo ==
    /\ LET r == History_undo(history)
       IN  /\ history' = r.h
           /\ trail' = Remember(trail, [name |-> "undo", pre |-> history, ret |-> r.ret])
    /\ streak' = 0
    /\ UNCHANGED <<codeVars, editorVars, pushed, ghost>>

HRedo ==
    /\ LET r == History_redo(history)
       IN  /\ history' = r.h
           /\ trail' = Remember(trail, [name |-> "redo", pre |-> history, ret |-> r.ret])
    /\ UNCHANGED <<codeVars, editorVars, pushed, streak, ghost>>

NextHistory == HPush \/ HUndo \/ HRedo

SpecHistory == InitHistory /\ [][NextHistory]_vars

-----------------------------------------------------------------------------
(* SpecCode: a client of Code that edits the way the actions and the tests *)
(* of the repository do: tx(), any insert/remove calls, commit(), with     *)
(* undo() and redo() between transactions.  The client has set a change   *)
(* callback (set_change_callback) before it starts.                        *)
(*                                                                         *)
(* ghost.window follows one transaction: "open" after tx(), "committed"    *)
(* after its commit() pushed the batch, "undone" after the undo() that     *)
(* follows directly and "redone" after the redo() that follows that;       *)
(* ghost.txText and ghost.commitText are the texts at tx() and at          *)
(* commit().  ghost.texts[i + 1] is the text right after the first i       *)
(* batches now in the History were committed, and ghost.calls counts the   *)
(* insert/remove calls made so far.                                        *)

Letters == {"a", "b"}

\* the texts over Letters of length n, and of length at most n
RECURSIVE TextsOfLen(_)
TextsOfLen(n) ==
    IF n = 0 THEN {<<>>}
    ELSE {Append(t, ch) : t \in TextsOfLen(n - 1), ch \in Letters}

RECURSIVE TextsUpTo(_)
TextsUpTo(n) == IF n = 0 THEN {<<>>} ELSE TextsOfLen(n) \cup TextsUpTo(n - 1)

InsertedTexts == {<<"a">>, <<"b", "a">>}

InitCode ==
    /\ \E t \in TextsUpTo(1) : content = t
    /\ lang = ""
    /\ Parsed
    /\ applying_history = TRUE
    /\ history = History_new(HistoryCapacity)
    /\ current_batch = NoBatch
    /\ change_callback = Code_set_change_callback(Code_new(content, lang)).change_callback
    /\ notified = 0
    /\ IdleEditor
    /\ IdleHistAux
    /\ trail = <<>>
    /\ ghost = [NoGhost EXCEPT !.texts = <<content>>]

CTx ==
    /\ ghost.window # "open"
    /\ SetCode(Code_tx(TheCode))
    /\ ghost' = [ghost EXCEPT !.window = "open", !.txText = content, !.commitText = <<>>]
    /\ UNCHANGED <<editorVars, histAux, trail>>

CInsert ==
    /\ ghost.window = "open"
    /\ ghost.calls < MaxEdits
    /\ \E from \in 0..Len(content), text \in InsertedTexts :
          SetCode(Code_insert(TheCode, from, text))
    /\ ghost' = [ghost EXCEPT !.calls = @ + 1]
    /\ UNCHANGED <<editorVars, histAux, trail>>

CRemove ==
    /\ ghost.window = "open"
    /\ ghost.calls < MaxEdits
    /\ \E from \in 0..Len(content) : \E to \in (from + 1)..Len(content) :
          SetCode(Code_remove(TheCode, from, to))
    /\ ghost' = [ghost EXCEPT !.calls = @ + 1]
    /\ UNCHANGED <<editorVars, histAux, trail>>

CCommit ==
    /\ ghost.window = "open"
    /\ ~Code_notify_panics(TheCode, current_batch.edits)
    /\ SetCode(Code_commit(TheCode))
    /\ ghost' = IF current_batch.edits # <<>>
                THEN [ghost EXCEPT
                        !.window = "committed",
                        !.commitText = content,
                        !.texts = Append(SubSeq(@, 1, history.index + 1), content)]
                ELSE [ghost EXCEPT !.window = "idle", !.txText = <<>>, !.commitText = <<>>]
    /\ UNCHANGED <<editorVars, histAux, trail>>

CUndo ==
    /\ ghost.window # "open"
    /\ SetCode(Code_undo(TheCode).c)
    /\ ghost' = IF ghost.window = "committed"
                THEN [ghost EXCEPT !.window = "undone"]
                ELSE [ghost EXCEPT !.window = "idle", !.txText = <<>>, !.commitText = <<>>]
    /\ UNCHANGED <<editorVars, histAux, trail>>

CRedo ==
    /\ ghost.window # "open"
    /\ SetCode(Code_redo(TheCode).c)
    /\ ghost' = IF ghost.window = "undone"
                THEN [ghost EXCEPT !.window = "redone"]
                ELSE [ghost EXCEPT !.window = "idle", !.txText = <<>>, !.commitText = <<>>]
    /\ UNCHANGED <<editorVars, histAux, trail>>

NextCode == CTx \/ CInsert \/ CRemove \/ CCommit \/ CUndo \/ CRedo

SpecCode == InitCode /\ [][NextCode]_vars

-----------------------------------------------------------------------------
(* Spec: the Editor under its actions.  The Editor is constructed over one *)
(* of EditorInputs; the cursor and the selection it starts with are those  *)
(* the movement actions and the mouse produce on that text: any cursor,    *)
(* and no selection or the selection between an anchor and the cursor.     *)
(* ghost.calls counts the actions applied other than Undo and Redo, and    *)
(* trail holds the last action with the Editor it was applied to.          *)

EditorInputs ==
    { [lang |-> "shell", text |-> <<"#", "#">>],
      [lang |-> "shell", text |-> <<"#", NL, "#", "a">>],
      [lang |-> "shell", text |-> <<SP, SP, "a">>],
      [lang |-> "go",    text |-> <<"/", "/", NL, "/", "/">>],
      [lang |-> "",      text |-> <<"a">>] }

TypedTexts == {<<"a">>}

ClipboardTexts == {<<SP, "a", NL>>}

\* what the trail remembers of the Editor before an action
Snapshot ==
    [content |-> content, cursor |-> cursor, selection |-> selection,
     history |-> history, clipboard |-> clipboard]

Init ==
    /\ \E i \in EditorInputs :
          /\ content = i.text
          /\ lang = i.lang
    /\ Parsed
    /\ applying_history = TRUE
    /\ history = History_new(HistoryCapacity)
    /\ current_batch = NoBatch
    /\ NoSink
    /\ cursor \in 0..Len(content)
    /\ \E anchor \in 0..Len(content), selected \in BOOLEAN :
          selection = IF selected
                      THEN Some(Selection_from_anchor_and_cursor(anchor, cursor))
                      ELSE None
    /\ clipboard \in {None} \cup {Some(t) : t \in ClipboardTexts}
    /\ NoCache
    /\ NoClicks
    /\ IdleHistAux
    /\ trail = <<>>
    /\ ghost = NoGhost

\* an action took the Editor to e; `counted` is 1 for the counted actions.
\* The trail of an Undo or a Redo keeps the action before it as well.
Applied(name, e, ret, counted) ==
    /\ SetEditor(e)
    /\ trail' = (IF counted = 0 /\ trail # <<>> THEN <<Last(trail)>> ELSE <<>>)
                 \o <<[name |-> name, pre |-> Snapshot, ret |-> ret]>>
    /\ ghost' = [ghost EXCEPT !.calls = @ + counted]
    /\ UNCHANGED <<histAux, now>>

\* the thread of the Editor panicked in an action: nothing runs after it
Panicked(name) ==
    /\ ghost' = [ghost EXCEPT !.window = "panic", !.calls = @ + 1]
    /\ trail' = <<[name |-> name, pre |-> Snapshot, ret |-> None]>>
    /\ UNCHANGED <<codeVars, history, editorVars, histAux>>

Running == ghost.window # "panic"

DoInsertText ==
    /\ Running
    /\ ghost.calls < MaxSteps
    /\ \E text \in TypedTexts :
          Applied("InsertText", InsertText_apply(TheEditor, text), None, 1)

DoInsertNewline ==
    /\ Running
    /\ ghost.calls < MaxSteps
    /\ Applied("InsertNewline", InsertNewline_apply(TheEditor), None, 1)

DoDelete ==
    /\ Running
    /\ ghost.calls < MaxSteps
    /\ Applied("Delete", Delete_apply(TheEditor), None, 1)

DoToggleComment ==
    /\ Running
    /\ ghost.calls < MaxSteps
    /\ Applied("ToggleComment", ToggleComment_apply(TheEditor), None, 1)

DoIndent ==
    /\ Running
    /\ ghost.calls < MaxSteps
    /\ Applied("Indent", Indent_apply(TheEditor), None, 1)

DoUnIndent ==
    /\ Running
    /\ ghost.calls < MaxSteps
    /\ Applied("UnIndent", UnIndent_apply(TheEditor), None, 1)

DoSelectAll ==
    /\ Running
    /\ ghost.calls < MaxSteps
    /\ Applied("SelectAll", SelectAll_apply(TheEditor), None, 1)

DoDuplicate ==
    /\ Running
    /\ ghost.calls < MaxSteps
    /\ IF Duplicate_panics(TheEditor)
       THEN Panicked("Duplicate")
       ELSE Applied("Duplicate", Duplicate_apply(TheEditor), None, 1)

DoDeleteLine ==
    /\ Running
    /\ ghost.calls < MaxSteps
    /\ Applied("DeleteLine", DeleteLine_apply(TheEditor), None, 1)

DoCut ==
    /\ Running
    /\ ghost.calls < MaxSteps
    /\ Applied("Cut", Cut_apply(TheEditor), None, 1)

DoCopy ==
    /\ Running
    /\ ghost.calls < MaxSteps
    /\ Applied("Copy", Copy_apply(TheEditor), None, 1)

DoPaste ==
    /\ Running
    /\ ghost.calls < MaxSteps
    /\ Applied("Paste", Paste_apply(TheEditor), None, 1)

DoUndo ==
    /\ Running
    /\ LET r == Undo_apply(TheEditor)
       IN  Applied("Undo", r.e, r.ret, 0)

DoRedo ==
    /\ Running
    /\ LET r == Redo_apply(TheEditor)
       IN  Applied("Redo", r.e, r.ret, 0)

Next ==
    \/ DoInsertText
    \/ DoInsertNewline
    \/ DoDelete
    \/ DoToggleComment
    \/ DoIndent
    \/ DoUnIndent
    \/ DoSelectAll
    \/ DoDuplicate
    \/ DoDeleteLine
    \/ DoCut
    \/ DoCopy
    \/ DoPaste
    \/ DoUndo
    \/ DoRedo

Spec == Init /\ [][Next]_vars

-----------------------------------------------------------------------------
(* SpecToggle: ToggleComment applied again and again to an Editor that     *)
(* starts as in Spec.  trail holds the last two applications.              *)

DoToggleAgain ==
    /\ ghost.calls < MaxToggles
    /\ SetEditor(ToggleComment_apply(TheEditor))
    /\ trail' = Remember(trail, [name |-> "ToggleComment", pre |-> Snapshot,
                                 ret |-> None])
    /\ ghost' = [ghost EXCEPT !.calls = @ + 1]
    /\ UNCHANGED <<histAux, now>>

NextToggle == DoToggleAgain

SpecToggle == Init /\ [][NextToggle]_vars

-----------------------------------------------------------------------------
(* SpecPaste: one call of Code::smart_paste(offset, text) on a Code over   *)
(* one of PasteInputs.  cursor holds the offset and clipboard the text.    *)

PasteInputs ==
    { [lang |-> "shell", text |-> <<>>],
      [lang |-> "shell", text |-> <<SP, SP>>],
      [lang |-> "shell", text |-> <<SP, SP, "x">>],
      [lang |-> "go",    text |-> <<TAB>>] }

PastedTexts ==
    { <<"a">>,
      <<"a", NL>>,
      <<"a", NL, "b">>,
      <<SP, SP, "a">>,
      <<SP, SP, "a", NL, SP, SP, "b">>,
      <<SP, SP, "a", NL, SP, SP, SP, "b">>,
      <<TAB, "a", NL, TAB, "b">>,
      <<NL>>,
      <<"a", NL, SP, SP, "b", NL, "c">>,
      <<"a", NL, NL, "b">>,
      <<"a", NL, SP, SP, SP, SP, "b">>,
      <<SP, SP, SP, SP, "a", NL, "b">> }

InitPaste ==
    /\ \E i \in PasteInputs :
          /\ content = i.text
          /\ lang = i.lang
    /\ Parsed
    /\ applying_history = TRUE
    /\ history = History_new(HistoryCapacity)
    /\ current_batch = NoBatch
    /\ NoSink
    /\ cursor \in 0..Len(content)
    /\ selection = None
    /\ clipboard \in {Some(t) : t \in PastedTexts}
    /\ NoCache
    /\ NoClicks
    /\ IdleHistAux
    /\ trail = <<>>
    /\ ghost = NoGhost

DoSmartPaste ==
    /\ trail = <<>>
    /\ LET r == Code_smart_paste(TheCode, cursor, clipboard.val)
       IN  /\ SetCode(r.c)
           /\ trail' = <<[name |-> "smart_paste", pre |-> Snapshot,
                          ret |-> Some(r.inserted)]>>
    /\ UNCHANGED <<editorVars, histAux, ghost>>

\* the block with every line prefixed by k indentation units
Prefixed(text, unit, k) ==
    LET ls == lines(text)
        body == JoinNL([i \in 1..Len(ls) |-> Repeat(unit, k) \o ls[i]])
    IN  IF text # <<>> /\ Last(text) = NL THEN Append(body, NL) ELSE body

\* the same call on the block indented by k more units, k in ret
DoSmartPasteIndented ==
    /\ trail = <<>>
    /\ \E k \in 1..MaxExtraUnits :
          LET r == Code_smart_paste(TheCode, cursor,
                                    Prefixed(clipboard.val, Code_indent(TheCode), k))
          IN  /\ SetCode(r.c)
              /\ trail' = <<[name |-> "smart_paste_indented", pre |-> Snapshot,
                             ret |-> Some(k)]>>
    /\ UNCHANGED <<editorVars, histAux, ghost>>

NextPaste == DoSmartPaste \/ DoSmartPasteIndented

SpecPaste == InitPaste /\ [][NextPaste]_vars

-----------------------------------------------------------------------------
(* SpecClick: a ClickTracker with max_dt = MaxInterval registering up to   *)
(* MaxClicks clicks.  last_click and last_last_click hold its last and     *)
(* prev; the clock advances by one of ClickGaps before each click; trail   *)
(* is the log of the clicks: [name, pre, at, offset, ret].                 *)

ClickGaps == {0, 400, 700}

ClickOffsets == {0, 1}

TheTracker == [last |-> last_click, prev |-> last_last_click, max_dt |-> MaxInterval]

InitClick ==
    /\ IdleCode
    /\ history = History_new(HistoryCapacity)
    /\ cursor = 0
    /\ selection = None
    /\ clipboard = None
    /\ NoCache
    /\ last_click = ClickTracker_new(MaxInterval).last
    /\ last_last_click = ClickTracker_new(MaxInterval).prev
    /\ now = 0
    /\ IdleHistAux
    /\ trail = <<>>
    /\ ghost = NoGhost

DoRegister ==
    /\ Len(trail) < MaxClicks
    /\ \E dt \in ClickGaps, offset \in ClickOffsets :
          LET r == ClickTracker_register(TheTracker, offset, now + dt)
          IN  /\ now' = now + dt
              /\ last_click' = r.t.last
              /\ last_last_click' = r.t.prev
              /\ trail' = Append(trail, [name |-> "register", pre |-> TheTracker,
                                          at |-> now + dt, offset |-> offset,
                                          ret |-> r.kind])
    /\ UNCHANGED <<codeVars, history, cursor, selection, clipboard, highlights_cache,
                   histAux, ghost>>

NextClick == DoRegister

SpecClick == InitClick /\ [][NextClick]_vars

-----------------------------------------------------------------------------
(* SpecMouse: an Editor just built over one of MouseInputs receiving up to *)
(* MaxEvents mouse events.  The clock advances by one of MouseGaps before  *)
(* each pointer-down.  ghost.events counts the mouse events (ghost.calls   *)
(* counts them too).  trail holds the last event: its name, the offset     *)
(* the position resolved to (pos), and for a pointer-down the kind of the  *)
(* click (ret).                                                            *)

MouseInputs ==
    { [lang |-> "", text |-> <<"a", "b", SP, "c">>],
      [lang |-> "", text |-> <<"a", NL, "b">>] }

MouseGaps == {0, 400}

\* the columns of the text area a mouse event points at
MouseCols == 0..4

InitMouse ==
    /\ \E i \in MouseInputs :
          /\ content = i.text
          /\ lang = i.lang
    /\ Parsed
    /\ applying_history = TRUE
    /\ history = History_new(HistoryCapacity)
    /\ current_batch = NoBatch
    /\ NoSink
    /\ cursor = 0
    /\ selection = None
    /\ clipboard = None
    /\ NoCache
    /\ NoClicks
    /\ IdleHistAux
    /\ trail = <<>>
    /\ ghost = NoGhost

DoMouseDown ==
    /\ ghost.events < MaxEvents
    /\ \E dt \in MouseGaps, row \in 0..len_lines(content), col \in MouseCols :
          LET pos == Editor_cursor_from_mouse(TheEditor, row, col)
          IN  /\ now' = now + dt
              /\ SetEditor(Editor_mouse_down(TheEditor, row, col, now + dt))
              /\ trail' = <<[name |-> "Down", pos |-> pos,
                             ret |-> IF pos.some
                                     THEN Some(ClickKindOf(last_click, last_last_click,
                                                  MaxInterval, pos.val, now + dt))
                                     ELSE None]>>
    /\ ghost' = [ghost EXCEPT !.events = @ + 1, !.calls = @ + 1]
    /\ UNCHANGED histAux

DoMouseDrag ==
    /\ ghost.events < MaxEvents
    /\ \E row \in 0..len_lines(content), col \in MouseCols :
          /\ SetEditor(Editor_mouse_drag(TheEditor, row, col))
          /\ trail' = <<[name |-> "Drag",
                         pos |-> Editor_cursor_from_mouse(TheEditor, row, col),
                         ret |-> None]>>
    /\ ghost' = [ghost EXCEPT !.events = @ + 1, !.calls = @ + 1]
    /\ UNCHANGED <<histAux, now>>

NextMouse == DoMouseDown \/ DoMouseDrag

SpecMouse == InitMouse /\ [][NextMouse]_vars

-----------------------------------------------------------------------------
(* SpecUse: the Editor of Spec, its clipboard empty, under its actions and *)
(* the mouse events, in any order; a mouse event counts in ghost.calls as  *)
(* an action does.                                                         *)

InitUse == Init /\ clipboard = None

NextUse == Next \/ (Running /\ ghost.calls < MaxSteps /\ NextMouse)

SpecUse == InitUse /\ [][NextUse]_vars

-----------------------------------------------------------------------------
(* SpecBuild: one call of Code::new(text, lang, custom_highlights) with    *)
(* any outcome of the asset lookup, then up to MaxQueries calls of         *)
(* highlight_interval on the Code it returned.  ghost.window is "built"    *)
(* after Ok, "failed" after Err and "panic" after a panic; trail holds the *)
(* last call with its arguments (pre) and its outcome (ret).               *)

BuildLangs == {"", "unknown", "text", "go", "shell"}

BuildTexts == {<<>>, <<"a", NL>>}

HighlightTexts == {"valid", "malformed"}

Assets == HighlightTexts \cup {"missing", "not_utf8"}

InitBuild ==
    /\ IdleCode
    /\ history = History_new(HistoryCapacity)
    /\ IdleEditor
    /\ IdleHistAux
    /\ trail = <<>>
    /\ ghost = NoGhost

DoCodeNew ==
    /\ ghost.window = "idle"
    /\ \E text \in BuildTexts, l \in BuildLangs, asset \in Assets,
          custom \in {None} \cup {Some(h) : h \in HighlightTexts},
          injections \in BOOLEAN :
          LET r == Code_new_from(text, l, custom, asset, injections)
          IN  /\ IF r.ok THEN SetCode(r.val) ELSE UNCHANGED <<codeVars, history>>
              /\ ghost' = [ghost EXCEPT !.window = IF r.ok THEN "built" ELSE "failed"]
              /\ trail' = <<[name |-> "Code::new",
                             pre |-> [text |-> text, lang |-> l, asset |-> asset,
                                      custom |-> custom, injections |-> injections],
                             ret |-> r.ok]>>
    /\ UNCHANGED <<editorVars, histAux>>

DoHighlightInterval ==
    /\ ghost.window = "built"
    /\ ghost.calls < MaxQueries
    /\ \E start \in 0..Len(content), end \in 0..Len(content) :
          LET r == Code_highlight_interval(TheCode, start, end)
          IN  /\ ghost' = [ghost EXCEPT !.window = IF r.panic THEN "panic" ELSE @,
                                        !.calls = @ + 1]
              /\ trail' = <<[name |-> "highlight_interval",
                             pre |-> [start |-> start, end |-> end],
                             ret |-> r]>>
    /\ UNCHANGED <<codeVars, history, editorVars, histAux>>

NextBuild == DoCodeNew \/ DoHighlightInterval

SpecBuild == InitBuild /\ [][NextBuild]_vars

-----------------------------------------------------------------------------
(* SpecIndent: one call of indentation_level or of                         *)
(* is_only_indentation_before on a Code over one of IndentTexts in one of  *)
(* IndentLangs.  trail holds the call: its arguments (row, col) and what   *)
(* it returned (ret).                                                      *)

IndentLangs == {"", "unknown", "text", "shell", "go", "python"}

IndentTexts ==
    { <<SP, SP, "a">>,
      <<SP, "a">>,
      <<SP, SP, SP, SP, "a">>,
      <<SP, SP, SP, "a">>,
      <<TAB, "a">>,
      <<"a", NL, SP, SP>> }

\* the columns asked about reach past the end of the line by ExtraCols
ColsOf(row) == 0..(Len(line(content, row)) + ExtraCols)

InitIndent ==
    /\ content \in IndentTexts
    /\ lang \in IndentLangs
    /\ Parsed
    /\ applying_history = TRUE
    /\ history = History_new(HistoryCapacity)
    /\ current_batch = NoBatch
    /\ NoSink
    /\ IdleEditor
    /\ IdleHistAux
    /\ trail = <<>>
    /\ ghost = NoGhost

DoIndentationLevel ==
    /\ trail = <<>>
    /\ \E row \in 0..(len_lines(content) - 1) : \E col \in ColsOf(row) :
          trail' = <<[name |-> "indentation_level", row |-> row, col |-> col,
                      ret |-> Code_indentation_level(TheCode, row, col)]>>
    /\ UNCHANGED <<codeVars, history, editorVars, histAux, ghost>>

DoIsOnlyIndentationBefore ==
    /\ trail = <<>>
    /\ \E row \in 0..len_lines(content) : \E col \in ColsOf(Min(row, len_lines(content) - 1)) :
          trail' = <<[name |-> "is_only_indentation_before", row |-> row, col |-> col,
                      ret |-> Code_is_only_indentation_before(TheCode, row, col)]>>
    /\ UNCHANGED <<codeVars, history, editorVars, histAux, ghost>>

NextIndent == DoIndentationLevel \/ DoIsOnlyIndentationBefore

SpecIndent == InitIndent /\ [][NextIndent]_vars

-----------------------------------------------------------------------------
(* SpecDelete: Delete applied to an Editor over one of DeleteInputs with   *)
(* any cursor, and no selection or the selection between an anchor and the *)
(* cursor.                                                                 *)

DeleteInputs ==
    { [lang |-> "shell", text |-> <<SP, SP, SP, "a">>],
      [lang |-> "shell", text |-> <<"a", NL, SP, SP, "b">>],
      [lang |-> "go",    text |-> <<TAB, "a">>],
      [lang |-> "",      text |-> <<SP, SP, "a">>] }

InitDelete ==
    /\ \E i \in DeleteInputs :
          /\ content = i.text
          /\ lang = i.lang
    /\ Parsed
    /\ applying_history = TRUE
    /\ history = History_new(HistoryCapacity)
    /\ current_batch = NoBatch
    /\ NoSink
    /\ cursor \in 0..Len(content)
    /\ \E anchor \in 0..Len(content), selected \in BOOLEAN :
          selection = IF selected
                      THEN Some(Selection_from_anchor_and_cursor(anchor, cursor))
                      ELSE None
    /\ clipboard = None
    /\ NoCache
    /\ NoClicks
    /\ IdleHistAux
    /\ trail = <<>>
    /\ ghost = NoGhost

NextDelete == DoDelete

SpecDelete == InitDelete /\ [][NextDelete]_vars

-----------------------------------------------------------------------------
(* SpecMove: up to MaxMoves movement actions, with or without shift, on an *)
(* Editor over one of MoveInputs with any cursor, and no selection or the  *)
(* selection between an anchor and the cursor.  trail holds the last       *)
(* movement: its name, its shift flag and the Editor before it.            *)

MoveInputs ==
    { [lang |-> "", text |-> <<"a", "b", NL, "c">>],
      [lang |-> "", text |-> <<"a", NL, "b", "c", NL, "d">>] }

InitMove ==
    /\ \E i \in MoveInputs :
          /\ content = i.text
          /\ lang = i.lang
    /\ Parsed
    /\ applying_history = TRUE
    /\ history = History_new(HistoryCapacity)
    /\ current_batch = NoBatch
    /\ NoSink
    /\ cursor \in 0..Len(content)
    /\ \E anchor \in 0..Len(content), selected \in BOOLEAN :
          selection = IF selected
                      THEN Some(Selection_from_anchor_and_cursor(anchor, cursor))
                      ELSE None
    /\ clipboard = None
    /\ NoCache
    /\ NoClicks
    /\ IdleHistAux
    /\ trail = <<>>
    /\ ghost = NoGhost

Moved(name, shift, e) ==
    /\ ghost.calls < MaxMoves
    /\ SetEditor(e)
    /\ trail' = <<[name |-> name, shift |-> shift, pre |-> Snapshot, ret |-> None]>>
    /\ ghost' = [ghost EXCEPT !.calls = @ + 1]
    /\ UNCHANGED <<histAux, now>>

DoMoveRight == \E shift \in BOOLEAN : Moved("MoveRight", shift, MoveRight_apply(TheEditor, shift))

DoMoveLeft == \E shift \in BOOLEAN : Moved("MoveLeft", shift, MoveLeft_apply(TheEditor, shift))

DoMoveUp == \E shift \in BOOLEAN : Moved("MoveUp", shift, MoveUp_apply(TheEditor, shift))

DoMoveDown == \E shift \in BOOLEAN : Moved("MoveDown", shift, MoveDown_apply(TheEditor, shift))

NextMove == DoMoveRight \/ DoMoveLeft \/ DoMoveUp \/ DoMoveDown

SpecMove == InitMove /\ [][NextMove]_vars

-----------------------------------------------------------------------------
(* SpecShift: up to MaxShiftMoves movements with shift on an Editor over   *)
(* one of MoveInputs that starts with any cursor and no selection.  The    *)
(* trail starts with the Editor as constructed and holds the names of the  *)
(* movements after it.                                                     *)

InitShift ==
    /\ \E i \in MoveInputs :
          /\ content = i.text
          /\ lang = i.lang
    /\ Parsed
    /\ applying_history = TRUE
    /\ history = History_new(HistoryCapacity)
    /\ current_batch = NoBatch
    /\ NoSink
    /\ cursor \in 0..Len(content)
    /\ selection = None
    /\ clipboard = None
    /\ NoCache
    /\ NoClicks
    /\ IdleHistAux
    /\ trail = <<[name |-> "new", pre |-> Snapshot]>>
    /\ ghost = NoGhost

ShiftMoved(name, e) ==
    /\ ghost.calls < MaxShiftMoves
    /\ SetEditor(e)
    /\ trail' = Append(trail, [name |-> name])
    /\ ghost' = [ghost EXCEPT !.calls = @ + 1]
    /\ UNCHANGED <<histAux, now>>

ShiftRight == ShiftMoved("MoveRight", MoveRight_apply(TheEditor, TRUE))

ShiftLeft == ShiftMoved("MoveLeft", MoveLeft_apply(TheEditor, TRUE))

ShiftUp == ShiftMoved("MoveUp", MoveUp_apply(TheEditor, TRUE))

ShiftDown == ShiftMoved("MoveDown", MoveDown_apply(TheEditor, TRUE))

NextShift == ShiftRight \/ ShiftLeft \/ ShiftUp \/ ShiftDown

SpecShift == InitShift /\ [][NextShift]_vars

-----------------------------------------------------------------------------
(* SpecRound: Indent and then UnIndent on an Editor over one of            *)
(* RoundInputs with any cursor and no selection, the selection between an  *)
(* anchor and the cursor, or the selection SelectAll sets first.  The      *)
(* trail starts with the Editor as constructed and holds the names of the  *)
(* actions after it.                                                       *)

RoundInputs ==
    { [lang |-> "shell", text |-> <<"a", NL, "b", NL, "c">>],
      [lang |-> "shell", text |-> <<SP, "a">>] }

InitRound ==
    /\ \E i \in RoundInputs :
          /\ content = i.text
          /\ lang = i.lang
    /\ Parsed
    /\ applying_history = TRUE
    /\ history = History_new(HistoryCapacity)
    /\ current_batch = NoBatch
    /\ NoSink
    /\ cursor \in 0..Len(content)
    /\ \E anchor \in 0..Len(content), selected \in BOOLEAN :
          selection = IF selected
                      THEN Some(Selection_from_anchor_and_cursor(anchor, cursor))
                      ELSE None
    /\ clipboard = None
    /\ NoCache
    /\ NoClicks
    /\ IdleHistAux
    /\ trail = <<[name |-> "new", pre |-> Snapshot]>>
    /\ ghost = NoGhost

RoundStep(name, e) ==
    /\ SetEditor(e)
    /\ trail' = Append(trail, [name |-> name])
    /\ UNCHANGED <<histAux, now, ghost>>

RoundSelectAll ==
    /\ Len(trail) = 1
    /\ RoundStep("SelectAll", SelectAll_apply(TheEditor))

RoundIndent ==
    /\ Last(trail).name \in {"new", "SelectAll"}
    /\ RoundStep("Indent", Indent_apply(TheEditor))

RoundUnIndent ==
    /\ Last(trail).name = "Indent"
    /\ RoundStep("UnIndent", UnIndent_apply(TheEditor))

NextRound == RoundSelectAll \/ RoundIndent \/ RoundUnIndent

SpecRound == InitRound /\ [][NextRound]_vars

-----------------------------------------------------------------------------
(* SpecUnIndent: UnIndent applied to an Editor over one of UnIndentInputs  *)
(* with any cursor, and no selection or the selection between an anchor    *)
(* and the cursor.                                                         *)

UnIndentInputs ==
    { [lang |-> "shell", text |-> <<SP, "a">>],
      [lang |-> "shell", text |-> <<SP, SP, SP, "a">>],
      [lang |-> "shell", text |-> <<SP, SP, "a", NL, SP, "b">>],
      [lang |-> "go",    text |-> <<TAB, TAB, "a">>] }

InitUnIndent ==
    /\ \E i \in UnIndentInputs :
          /\ content = i.text
          /\ lang = i.lang
    /\ Parsed
    /\ applying_history = TRUE
    /\ history = History_new(HistoryCapacity)
    /\ current_batch = NoBatch
    /\ NoSink
    /\ cursor \in 0..Len(content)
    /\ \E anchor \in 0..Len(content), selected \in BOOLEAN :
          selection = IF selected
                      THEN Some(Selection_from_anchor_and_cursor(anchor, cursor))
                      ELSE None
    /\ clipboard = None
    /\ NoCache
    /\ NoClicks
    /\ IdleHistAux
    /\ trail = <<>>
    /\ ghost = NoGhost

NextUnIndent == DoUnIndent

SpecUnIndent == InitUnIndent /\ [][NextUnIndent]_vars

-----------------------------------------------------------------------------
(* SpecCache: the Editor under its actions, Undo and Redo, with the        *)
(* renderer asking for the highlights of the whole text up to MaxRenders   *)
(* times in between.  ghost.events counts the renderings.                  *)

CacheInputs ==
    { [lang |-> "shell", text |-> <<"#", NL, "#", "a">>],
      [lang |-> "shell", text |-> <<SP, SP, "a">>] }

InitCache ==
    /\ \E i \in CacheInputs :
          /\ content = i.text
          /\ lang = i.lang
    /\ Parsed
    /\ applying_history = TRUE
    /\ history = History_new(HistoryCapacity)
    /\ current_batch = NoBatch
    /\ NoSink
    /\ cursor \in 0..Len(content)
    /\ \E anchor \in 0..Len(content), selected \in BOOLEAN :
          selection = IF selected
                      THEN Some(Selection_from_anchor_and_cursor(anchor, cursor))
                      ELSE None
    /\ clipboard \in {Some(t) : t \in ClipboardTexts}
    /\ NoCache
    /\ NoClicks
    /\ IdleHistAux
    /\ trail = <<>>
    /\ ghost = NoGhost

DoRender ==
    /\ Running
    /\ ghost.events < MaxRenders
    /\ query
    /\ SetEditor(Editor_cached_highlights(TheEditor, 0, Len(content)))
    /\ ghost' = [ghost EXCEPT !.events = @ + 1]
    /\ UNCHANGED <<histAux, now, trail>>

NextCache == DoRender \/ Next

SpecCache == InitCache /\ [][NextCache]_vars

-----------------------------------------------------------------------------
(* SpecRecord: a Code with a change callback under tx, insert, remove,     *)
(* commit, undo and redo called in any order, MaxCalls calls in all.       *)
(* ghost.window is "open" from a tx() to the next commit().  The trail     *)
(* holds the last call: its name, what the callback received in it (ret),  *)
(* and for a commit the texts to which the edits of the batch were         *)
(* applied (texts); ghost.texts holds those texts for the open batch.      *)

RecordInputs == {<<"a", NL, "b">>}

RecordTexts == {<<"x">>}

InitRecord ==
    /\ content \in RecordInputs
    /\ lang = ""
    /\ Parsed
    /\ applying_history = TRUE
    /\ history = History_new(HistoryCapacity)
    /\ current_batch = NoBatch
    /\ change_callback = Code_set_change_callback(Code_new(content, lang)).change_callback
    /\ notified = 0
    /\ IdleEditor
    /\ IdleHistAux
    /\ trail = <<>>
    /\ ghost = NoGhost

Called(name, c, ret, texts, window) ==
    /\ SetCode(c)
    /\ trail' = <<[name |-> name, ret |-> ret, texts |-> texts]>>
    /\ ghost' = [ghost EXCEPT !.calls = @ + 1, !.window = window,
                              !.texts = IF c.current_batch.edits = <<>> THEN <<>>
                                        ELSE IF Len(c.current_batch.edits) > Len(current_batch.edits)
                                        THEN Append(@, content)
                                        ELSE @]
    /\ UNCHANGED <<editorVars, histAux>>

CallPanicked(name) ==
    /\ ghost' = [ghost EXCEPT !.window = "panic", !.calls = @ + 1]
    /\ trail' = <<[name |-> name, ret |-> None, texts |-> ghost.texts]>>
    /\ UNCHANGED <<codeVars, history, editorVars, histAux>>

RTx ==
    /\ Running
    /\ ghost.calls < MaxCalls
    /\ Called("tx", Code_tx(TheCode), None, <<>>, "open")

RInsert ==
    /\ Running
    /\ ghost.calls < MaxCalls
    /\ \E from \in 0..Len(content), text \in RecordTexts :
          Called("insert", Code_insert(TheCode, from, text), None, <<>>, ghost.window)

RRemove ==
    /\ Running
    /\ ghost.calls < MaxCalls
    /\ \E from \in 0..Len(content) : \E to \in (from + 1)..Len(content) :
          Called("remove", Code_remove(TheCode, from, to), None, <<>>, ghost.window)

RCommit ==
    /\ Running
    /\ ghost.calls < MaxCalls
    /\ IF Code_notify_panics(TheCode, current_batch.edits)
       THEN CallPanicked("commit")
       ELSE Called("commit", Code_commit(TheCode),
                   IF change_callback /\ current_batch.edits # <<>>
                   THEN Some(Code_changes(TheCode, current_batch.edits)) ELSE None,
                   ghost.texts, "idle")

RUndo ==
    /\ Running
    /\ ghost.calls < MaxCalls
    /\ IF Code_undo_panics(TheCode)
       THEN CallPanicked("undo")
       ELSE Called("undo", Code_undo(TheCode).c, None, <<>>, ghost.window)

RRedo ==
    /\ Running
    /\ ghost.calls < MaxCalls
    /\ IF Code_redo_panics(TheCode)
       THEN CallPanicked("redo")
       ELSE Called("redo", Code_redo(TheCode).c, None, <<>>, ghost.window)

NextRecord == RTx \/ RInsert \/ RRemove \/ RCommit \/ RUndo \/ RRedo

SpecRecord == InitRecord /\ [][NextRecord]_vars

-----------------------------------------------------------------------------
(* SpecClip: Paste applied to an Editor over one of PasteInputs with any   *)
(* cursor, no selection or the selection between an anchor and the cursor, *)
(* and a clipboard that is unavailable, empty, or one of PastedTexts.      *)

InitClip ==
    /\ \E i \in PasteInputs :
          /\ content = i.text
          /\ lang = i.lang
    /\ Parsed
    /\ applying_history = TRUE
    /\ history = History_new(HistoryCapacity)
    /\ current_batch = NoBatch
    /\ NoSink
    /\ cursor \in 0..Len(content)
    /\ \E anchor \in 0..Len(content), selected \in BOOLEAN :
          selection = IF selected
                      THEN Some(Selection_from_anchor_and_cursor(anchor, cursor))
                      ELSE None
    /\ clipboard \in {None, Some(<<>>)} \cup {Some(t) : t \in PastedTexts}
    /\ NoCache
    /\ NoClicks
    /\ IdleHistAux
    /\ trail = <<>>
    /\ ghost = NoGhost

NextClip == DoPaste

SpecClip == InitClip /\ [][NextClip]_vars

-----------------------------------------------------------------------------
(* Properties of the Editor, checked under Spec. *)

\* the actions that edit the text
MutatingNames ==
    {"InsertText", "InsertNewline", "Delete", "ToggleComment", "Indent",
     "UnIndent", "Duplicate", "DeleteLine", "Cut", "Paste"}

\* C2: an Undo that undid a batch, followed by Redo, leaves the text equal
\* to the text before the Undo; a Redo that redid a batch sets the cursor and
\* the selection to the batch's after-snapshot; and that snapshot is the
\* cursor and the selection the Editor had when the action committed the
\* batch.
C2_UndoThenRedo ==
    /\ (Len(trail) = 2 /\ trail[1].name = "Undo" /\ trail[1].ret.some
         /\ trail[2].name = "Redo") =>
           /\ content = trail[1].pre.content
           /\ trail[2].ret = trail[1].ret
    /\ (trail # <<>> /\ Last(trail).name = "Redo" /\ Last(trail).ret.some) =>
           /\ Last(trail).ret.val.state_after.some
           /\ cursor = Last(trail).ret.val.state_after.val.offset
           /\ selection = Last(trail).ret.val.state_after.val.selection
    /\ (trail # <<>> /\ Last(trail).name \in MutatingNames
         /\ history # Last(trail).pre.history) =>
           history.edits[history.index].state_after
               = Some(EditState(cursor, selection))

C2_Witness ==
    /\ Len(trail) = 2
    /\ trail[1].name = "Undo"
    /\ trail[1].ret.some
    /\ trail[2].name = "Redo"
    /\ trail[2].ret = trail[1].ret
    /\ content = trail[1].pre.content
    /\ content # trail[2].pre.content
    /\ cursor # trail[2].pre.cursor
    /\ ActiveSel(selection)
    /\ selection # trail[2].pre.selection

\* C7: an Undo with nothing to undo (index = 0) and a Redo with nothing to
\* redo (index = len) return none and leave the History, the text, the
\* cursor, the selection and the clipboard as they were.
C7_NothingToUndoOrRedo ==
    trail # <<>> =>
        LET t == Last(trail)
        IN  (\/ t.name = "Undo" /\ t.pre.history.index = 0
             \/ t.name = "Redo" /\ t.pre.history.index = Len(t.pre.history.edits)) =>
                /\ t.ret = None
                /\ history = t.pre.history
                /\ content = t.pre.content
                /\ cursor = t.pre.cursor
                /\ selection = t.pre.selection
                /\ clipboard = t.pre.clipboard

C7_Witness ==
    /\ Len(trail) = 2
    /\ trail[1].name = "Undo"
    /\ trail[1].ret.some
    /\ trail[2].name = "Undo"
    /\ trail[2].pre.history.index = 0
    /\ trail[2].ret = None
    /\ Len(history.edits) = 1
    /\ cursor > 0
    /\ ActiveSel(selection)

\* C8: a mutating action that changed the text, followed at once by Undo:
\* the text, the cursor and the selection are those before the action; the
\* action committed exactly one batch and the Undo took back all of it.
C8_UndoRestoresAction ==
    (/\ Len(trail) = 2
     /\ trail[1].name \in MutatingNames
     /\ trail[2].name = "Undo"
     /\ trail[2].pre.content # trail[1].pre.content) =>
        /\ trail[2].pre.history.index = trail[1].pre.history.index + 1
        /\ trail[2].ret = Some(trail[2].pre.history.edits[trail[2].pre.history.index])
        /\ history.index = trail[1].pre.history.index
        /\ content = trail[1].pre.content
        /\ cursor = trail[1].pre.cursor
        /\ selection = trail[1].pre.selection

C8_Witness ==
    /\ Len(trail) = 2
    /\ trail[1].name = "InsertText"
    /\ ActiveSel(trail[1].pre.selection)
    /\ trail[1].pre.cursor = trail[1].pre.selection.val.end
    /\ trail[2].name = "Undo"
    /\ trail[2].ret.some
    /\ Len(trail[2].ret.val.edits) = 2
    /\ content = trail[1].pre.content
    /\ content # trail[2].pre.content
    /\ selection = trail[1].pre.selection

-----------------------------------------------------------------------------
(* ToggleComment twice, checked under SpecToggle. *)

\* C9: ToggleComment applied twice in a row, from any text and any cursor
\* and selection, leaves the text equal to the text before the first of the
\* two.
C9_ToggleTwiceRestores ==
    Len(trail) = 2 => content = trail[1].pre.content

-----------------------------------------------------------------------------
(* smart_paste, checked under SpecPaste. *)

\* the text without the leading blanks of its first line
RECURSIVE TrimFirstLine(_)
TrimFirstLine(t) ==
    IF t # <<>> /\ t[1] \in {SP, TAB} THEN TrimFirstLine(Tail(t)) ELSE t

\* every line of the block is at the indentation level of the offset
BlockAtLevel(c, offset, text) ==
    LET p == Code_point(c, offset)
        base_level == Code_indentation_level(c, p.row, p.col)
    IN  /\ lines(text) # <<>>
        /\ \A i \in 1..Len(lines(text)) :
              LineLevel(lines(text)[i], Code_indent(c)) = base_level

\* C10: when every line of the pasted block is at the indentation level of
\* the paste offset, smart_paste inserts the block as it is, but for the
\* leading whitespace of its first line, and reports that many characters.
C10_PasteAtLevelUnchanged ==
    (/\ trail # <<>>
     /\ Last(trail).name = "smart_paste"
     /\ BlockAtLevel([TheCode EXCEPT !.content = Last(trail).pre.content],
                     Last(trail).pre.cursor, Last(trail).pre.clipboard.val)) =>
        content = rope_insert(Last(trail).pre.content, Last(trail).pre.cursor,
                              TrimFirstLine(Last(trail).pre.clipboard.val))

\* the Code as it was before the last call of SpecPaste, and the block
CodeBefore == [TheCode EXCEPT !.content = Last(trail).pre.content,
                              !.current_batch = NoBatch]

BlockPasted == Last(trail).pre.clipboard.val

\* C11 as stated: pasting the block with every line prefixed by the same
\* number of extra indentation units gives the content that pasting the
\* block itself at the same offset of the same buffer gives.
C11_PasteIgnoresAbsoluteIndent ==
    (trail # <<>> /\ Last(trail).name = "smart_paste_indented") =>
        content = Code_smart_paste(CodeBefore, Last(trail).pre.cursor,
                                   BlockPasted).c.content

\* no line of the block after its first is empty or all whitespace
NoBlankLineAfterFirst(text) ==
    \A i \in 2..Len(lines(text)) : ~IsBlank(lines(text)[i])

\* C11 amended: for a block with no blank line after its first line, pasting
\* the block with every line prefixed by the same number of extra
\* indentation units gives the content that pasting the block itself gives.
C11_PasteIgnoresIndentNoBlank ==
    (/\ trail # <<>>
     /\ Last(trail).name = "smart_paste_indented"
     /\ NoBlankLineAfterFirst(BlockPasted)) =>
        content = Code_smart_paste(CodeBefore, Last(trail).pre.cursor,
                                   BlockPasted).c.content

C11_Witness ==
    /\ trail # <<>>
    /\ Last(trail).name = "smart_paste_indented"
    /\ Len(lines(BlockPasted)) = 3
    /\ NoBlankLineAfterFirst(BlockPasted)
    /\ LineLevel(lines(BlockPasted)[2], Code_indent(TheCode))
          = LineLevel(lines(BlockPasted)[1], Code_indent(TheCode)) + 1
    /\ Code_indentation_level(CodeBefore,
                              Code_point(CodeBefore, Last(trail).pre.cursor).row,
                              Code_point(CodeBefore, Last(trail).pre.cursor).col) = 1
    /\ content = rope_insert(Last(trail).pre.content, Last(trail).pre.cursor,
                             <<"a", NL, SP, SP, SP, SP, "b", NL, SP, SP, "c">>)

-----------------------------------------------------------------------------
(* Properties of Code, checked under SpecCode. *)

\* C1: whatever the text T at tx() and whatever insert/remove calls are
\* recorded up to commit() as one batch, the undo() that follows leaves the
\* text equal to T.
C1_UndoInvertsBatch == ghost.window = "undone" => content = ghost.txText

C1_Witness ==
    /\ ghost.window = "undone"
    /\ content = ghost.txText
    /\ ghost.commitText # ghost.txText
    /\ LET b == history.edits[history.index + 1]
       IN  /\ Len(b.edits) >= 2
           /\ \E i, j \in 1..Len(b.edits) :
                 b.edits[i].kind = "Insert" /\ b.edits[j].kind = "Remove"

\* C3: after k non-empty batches were committed and any undo()/redo() calls
\* were made, the text is the text as it was right after the first i
\* commits, i being the History index (so index 0 gives the initial text and
\* index k the final one).
C3_TextFollowsIndex ==
    ghost.window # "open" =>
        /\ Len(ghost.texts) = Len(history.edits) + 1
        /\ content = ghost.texts[history.index + 1]

C3_Witness ==
    /\ ghost.window = "redone"
    /\ Len(history.edits) = 2
    /\ history.index = 2
    /\ content = ghost.texts[3]
    /\ ghost.texts[1] # ghost.texts[2]
    /\ ghost.texts[2] # ghost.texts[3]
    /\ Len(history.edits[2].edits) = 2

-----------------------------------------------------------------------------
(* Properties of History, checked under SpecHistory. *)

\* C4: a History of capacity N >= 1 never stores more than N batches; after
\* N+1 pushes with no undo in between, exactly N undos succeed (they return
\* the last N batches pushed, most recent first), the next undo returns none,
\* and neither the first batch ever pushed nor the first of these N+1 is
\* returned.
C4_CapacityBound ==
    /\ Len(history.edits) <= history.max_items
    /\ streak >= history.max_items + 1 =>
          LET u == UndoSeq(history)
          IN  /\ Len(u) = history.max_items
              /\ \A i \in 1..Len(u) :
                    /\ u[i] = pushed + 1 - i
                    /\ u[i] # 1
                    /\ u[i] # pushed - streak + 1

C4_Witness ==
    /\ history.max_items >= 2
    /\ streak = history.max_items + 1
    /\ Last(trail).name = "push"
    /\ Len(Last(trail).pre.edits) = history.max_items

\* C5: 0 <= index <= len; the batches below index are exactly what successive
\* undo() calls return, most recent first, and the batches at index and above
\* are exactly what successive redo() calls return, oldest first.
C5_IndexPartition ==
    /\ 0 <= history.index
    /\ history.index <= Len(history.edits)
    /\ UndoSeq(history) = Reverse(SubSeq(history.edits, 1, history.index))
    /\ RedoSeq(history) = SubSeq(history.edits, history.index + 1, Len(history.edits))

C5_Witness ==
    /\ trail # <<>>
    /\ Last(trail).name = "undo"
    /\ Last(trail).ret.some
    /\ 0 < history.index
    /\ history.index + 1 < Len(history.edits)

\* C6: right after a push, index = len and redo() returns none, the batches
\* that were at the old index and above are gone, and the batches below the
\* old index are kept in order (without the oldest one when the History was
\* at capacity, in which case index stays as it was); redo() keeps returning
\* none until an undo happens.
C6_PushDropsRedoTail ==
    /\ streak > 0 => ~History_redo(history).ret.some
    /\ (trail # <<>> /\ Last(trail).name = "push") =>
          LET old  == Last(trail).pre
              kept == SubSeq(old.edits, 1, old.index)
              full == Len(kept) = old.max_items
          IN  /\ history.index = Len(history.edits)
              /\ ~History_redo(history).ret.some
              /\ history.edits = (IF full THEN Tail(kept) ELSE kept) \o <<pushed>>
              /\ history.index = IF full THEN old.index ELSE old.index + 1
              /\ \A i \in (old.index + 1)..Len(old.edits) :
                    \A j \in 1..Len(history.edits) : history.edits[j] # old.edits[i]

C6_Witness ==
    /\ trail # <<>>
    /\ Last(trail).name = "push"
    /\ Last(trail).pre.index + 1 < Len(Last(trail).pre.edits)
    /\ Last(trail).pre.index > 0

-----------------------------------------------------------------------------
(* Properties of the click tracker, checked under SpecClick. *)

\* clicks i and i+1 of the log are at the same offset, less than
\* MaxInterval apart
Consecutive(i) ==
    /\ trail[i].offset = trail[i + 1].offset
    /\ trail[i + 1].at - trail[i].at < MaxInterval

\* the kind of click n of the log by its two gaps
KindByGaps(n) ==
    IF n >= 3 /\ Consecutive(n - 2) /\ Consecutive(n - 1) THEN "Triple"
    ELSE IF n >= 2 /\ Consecutive(n - 1) THEN "Double"
    ELSE "Single"

\* C12: register returns Triple when the two clicks before it were at the
\* same offset and each of the two consecutive gaps is within the
\* interval, Double when the click before it was at the same offset less
\* than the interval ago, and Single otherwise.
C12_KindByConsecutiveGaps ==
    \A n \in 1..Len(trail) :
        trail[n].name = "register" => trail[n].ret = KindByGaps(n)

-----------------------------------------------------------------------------
(* Properties of the mouse handling, checked under SpecMouse. *)

\* the maximal run of word characters around the offset: the widest
\* [start, end] holding the offset whose characters are all word characters
WordAround(t, offset) ==
    LET runs == {r \in (0..offset) \X (offset..Len(t)) :
                    \A i \in (r[1] + 1)..r[2] : is_word_char(t[i])}
        widest == CHOOSE r \in runs : \A q \in runs : r[1] <= q[1] /\ r[2] >= q[2]
    IN  [start |-> widest[1], end |-> widest[2]]

\* the whole line holding the offset, its line break included
LineAround(t, offset) ==
    LET row == char_to_line(t, offset)
    IN  [start |-> line_to_char(t, row),
         end   |-> line_to_char(t, row) + Len(line(t, row))]

SelectionOfKind(kind, t, offset) ==
    IF kind = "Triple" THEN LineAround(t, offset)
    ELSE IF kind = "Double" THEN WordAround(t, offset)
    ELSE [start |-> offset, end |-> offset]

\* C13: after a pointer-down the selection is the one of the kind of the
\* click (empty at the offset for a single click, the run of word
\* characters around the offset for a double click, the whole line with its
\* line break for a triple click) and the cursor is at its end.
C13_SelectionByClickKind ==
    (trail # <<>> /\ Last(trail).name = "Down" /\ Last(trail).pos.some) =>
        /\ selection = Some(SelectionOfKind(Last(trail).ret.val, content,
                                            Last(trail).pos.val))
        /\ cursor = selection.val.end

-----------------------------------------------------------------------------
(* Properties of the selection, checked under SpecUse. *)

\* C14: a Selection built by Selection::new or by
\* Selection::from_anchor_and_cursor from the cursor and any offset of the
\* text, in either order, and the selection the editor holds, have
\* start <= end.
C14_SelectionOrdered ==
    /\ selection.some => selection.val.start <= selection.val.end
    /\ \A a \in 0..Len(content) :
          /\ Selection_new(a, cursor).start <= Selection_new(a, cursor).end
          /\ Selection_new(cursor, a).start <= Selection_new(cursor, a).end
          /\ Selection_from_anchor_and_cursor(a, cursor).start
                <= Selection_from_anchor_and_cursor(a, cursor).end
          /\ Selection_from_anchor_and_cursor(cursor, a).start
                <= Selection_from_anchor_and_cursor(cursor, a).end

\* a drag to an offset before the anchor left a non-empty selection that
\* starts at the cursor
C14_Witness ==
    /\ trail # <<>>
    /\ Last(trail).name = "Drag"
    /\ Last(trail).pos.some
    /\ selection.some
    /\ cursor = selection.val.start
    /\ cursor = Last(trail).pos.val
    /\ selection.val.start < selection.val.end

-----------------------------------------------------------------------------
(* Properties of the language lookups, checked under Spec. *)

\* C15: on a buffer whose language has no parser, indent() and comment()
\* return the empty string, and Indent, UnIndent and ToggleComment leave
\* the text as it was.
C15_NoParserNoIndentNoComment ==
    Code_get_language(lang) = None =>
        /\ Code_indent(TheCode) = <<>>
        /\ Code_comment(TheCode) = <<>>
        /\ (trail # <<>> /\ Last(trail).name \in {"Indent", "UnIndent", "ToggleComment"})
              => content = Last(trail).pre.content

-----------------------------------------------------------------------------
(* Properties of commit(), checked under SpecCode. *)

\* the step is a commit(): the only step that closes an open transaction
CommitStep == ghost.window = "open" /\ ghost'.window # "open"

\* C16: commit() with no recorded edits changes nothing: it pushes no
\* batch, the History (its index and its redo tail) stays as it was, and
\* the change callback is not called.
C16_EmptyCommitChangesNothing ==
    [][(CommitStep /\ current_batch.edits = <<>>) =>
          /\ history' = history
          /\ notified' = notified
          /\ content' = content
          /\ current_batch' = current_batch]_vars

\* an empty transaction was committed while a batch was waiting for redo
C16_Witness ==
    /\ ghost.window = "idle"
    /\ change_callback
    /\ history.index < Len(history.edits)
    /\ RedoSeq(history) # <<>>

-----------------------------------------------------------------------------
(* Properties of Code::new and highlight_interval, checked under SpecBuild. *)

\* the highlight query of the language of the call in the trail (its entry
\* in custom_highlights, or else the bundled asset) is missing or malformed
QueryMissingOrMalformed ==
    LET p == Last(trail).pre
    IN  IF p.custom.some THEN p.custom.val = "malformed"
        ELSE p.asset \in {"missing", "malformed", "not_utf8"}

\* C17: Code::new with a language without a parser succeeds with tree,
\* parser and query absent; with a language with a parser whose highlight
\* query is missing or malformed it returns an error.
C17_NewPlainOrError ==
    (trail # <<>> /\ Last(trail).name = "Code::new") =>
        /\ Code_get_language(Last(trail).pre.lang) = None =>
              /\ Last(trail).ret
              /\ ghost.window = "built"
              /\ ~tree /\ ~parser /\ ~query
              /\ content = Last(trail).pre.text
              /\ lang = Last(trail).pre.lang
        /\ (/\ Code_get_language(Last(trail).pre.lang) # None
            /\ QueryMissingOrMalformed) =>
              /\ ~Last(trail).ret
              /\ ghost.window = "failed"

\* Code::new of "go" failed for the missing asset
C17_Witness ==
    /\ trail # <<>>
    /\ Last(trail).name = "Code::new"
    /\ Last(trail).pre.lang = "go"
    /\ Last(trail).pre.custom = None
    /\ Last(trail).pre.asset = "missing"
    /\ ghost.window = "failed"

\* C18: highlight_interval(start, end) with start > end panics on every
\* buffer; with start <= end on a buffer without a query or without a tree
\* it returns the empty list.
C18_HighlightIntervalRange ==
    (trail # <<>> /\ Last(trail).name = "highlight_interval") =>
        /\ Last(trail).pre.start > Last(trail).pre.end =>
              Last(trail).ret.panic /\ ghost.window = "panic"
        /\ (Last(trail).pre.start <= Last(trail).pre.end /\ (~query \/ ~tree)) =>
              ~Last(trail).ret.panic /\ Last(trail).ret.ret = "empty"

\* highlight_interval(2, 0) panicked on a plain-text buffer
C18_Witness ==
    /\ trail # <<>>
    /\ Last(trail).name = "highlight_interval"
    /\ Last(trail).pre.start = 2
    /\ Last(trail).pre.end = 0
    /\ ~query
    /\ ghost.window = "panic"

-----------------------------------------------------------------------------
(* Properties of the indentation queries, checked under SpecIndent. *)

\* the number of whole units at the start of ln that end at or before col
WholeUnitsBefore(ln, unit, col) ==
    LET ks == {k \in 0..Len(ln) :
                  /\ k * Len(unit) <= col
                  /\ k * Len(unit) <= Len(ln)
                  /\ SubSeq(ln, 1, k * Len(unit)) = Repeat(unit, k)}
    IN  CHOOSE k \in ks : \A j \in ks : j <= k

\* C19: indentation_level(line, col) is the number of whole indentation
\* units at the start of the line that lie entirely before column col, for
\* col from 0 to the length of the line, and 0 for a language that is
\* unknown or empty.
C19_LevelIsWholeUnitsBefore ==
    (/\ trail # <<>>
     /\ Last(trail).name = "indentation_level"
     /\ Last(trail).col <= Len(line(content, Last(trail).row))) =>
        Last(trail).ret =
            IF Code_get_language(lang) = None THEN 0
            ELSE WholeUnitsBefore(line(content, Last(trail).row), indent(lang),
                                  Last(trail).col)

\* C20: with a known language and col > 0, is_only_indentation_before(row,
\* col) is true exactly when every character of the row before col is
\* whitespace; with an unknown or empty language it is false.
C20_OnlyWhitespaceBefore ==
    (/\ trail # <<>>
     /\ Last(trail).name = "is_only_indentation_before"
     /\ Last(trail).row < len_lines(content)
     /\ Last(trail).col > 0
     /\ Last(trail).col <= Len(line(content, Last(trail).row))) =>
        Last(trail).ret =
            IF Code_get_language(lang) = None THEN FALSE
            ELSE \A i \in 1..Last(trail).col :
                    IsWhitespace(line(content, Last(trail).row)[i])

-----------------------------------------------------------------------------
(* Properties of Delete, checked under SpecDelete. *)

\* the start of the line of the offset
LineStartOf(t, offset) == line_to_char(t, char_to_line(t, offset))

\* the offset is after the start of its line, with blanks only in between
OnlyBlanksBefore(t, offset) ==
    /\ offset > LineStartOf(t, offset)
    /\ \A i \in (LineStartOf(t, offset) + 1)..offset : t[i] \in {SP, TAB}

\* C21: Delete with a non-empty selection removes the selected text and
\* puts the cursor at its start; otherwise, with only indentation before
\* the cursor on its line, it removes that indentation and the cursor goes
\* to the line start; otherwise it removes the character before the
\* cursor; at offset 0 without a selection the text is unchanged and no
\* batch is pushed.
C21_DeleteCases ==
    (trail # <<>> /\ Last(trail).name = "Delete") =>
        LET pre == Last(trail).pre
            from == IF ActiveSel(pre.selection) THEN pre.selection.val.start
                    ELSE IF pre.cursor = 0 THEN 0
                    ELSE IF OnlyBlanksBefore(pre.content, pre.cursor)
                         THEN LineStartOf(pre.content, pre.cursor)
                         ELSE pre.cursor - 1
            to == IF ActiveSel(pre.selection) THEN pre.selection.val.end
                  ELSE pre.cursor
        IN  /\ content = rope_remove(pre.content, from, to)
            /\ cursor = from
            /\ from = to => history = pre.history

-----------------------------------------------------------------------------
(* Properties of single actions, checked under Spec. *)

\* the text with the line of `row` (counted from 0) written twice
WithLineTwice(t, row) ==
    LET ls == SplitNL(t, <<>>)
    IN  JoinNL(SubSeq(ls, 1, row + 1) \o <<ls[row + 1]>>
               \o SubSeq(ls, row + 2, Len(ls)))

\* C22: with no selection, Duplicate puts a copy of the line of the cursor
\* directly below it, every other line unchanged, and moves the cursor
\* onto the copy at the same column; for every cursor position, the last
\* line and the end of the text included.
C22_DuplicateLineBelow ==
    (/\ trail # <<>>
     /\ Last(trail).name = "Duplicate"
     /\ Last(trail).pre.selection = None) =>
        LET pre == Last(trail).pre
            row == char_to_line(pre.content, pre.cursor)
        IN  /\ content = WithLineTwice(pre.content, row)
            /\ cursor = pre.cursor + Len(SplitNL(pre.content, <<>>)[row + 1]) + 1

-----------------------------------------------------------------------------
(* Properties of the movement actions, checked under SpecMove. *)

\* C23: without shift and with a non-empty selection, MoveLeft, MoveRight,
\* MoveUp and MoveDown put the cursor on an edge of the selection (the
\* start for left, the end for right) and clear the selection.
C23_MoveCollapsesSelection ==
    (/\ trail # <<>>
     /\ Last(trail).name \in {"MoveLeft", "MoveRight", "MoveUp", "MoveDown"}
     /\ ~Last(trail).shift
     /\ ActiveSel(Last(trail).pre.selection)) =>
        LET sel == Last(trail).pre.selection.val
        IN  /\ selection = None
            /\ Last(trail).name = "MoveLeft" => cursor = sel.start
            /\ Last(trail).name = "MoveRight" => cursor = sel.end
            /\ cursor \in {sel.start, sel.end}

-----------------------------------------------------------------------------
(* Properties of Paste, checked under SpecClip. *)

\* the text and the cursor of the Editor in the trail once its non-empty
\* selection, if it has one, is removed
AfterSelectionRemoved ==
    LET pre == Last(trail).pre
    IN  IF ActiveSel(pre.selection)
        THEN [content |-> rope_remove(pre.content, pre.selection.val.start,
                                      pre.selection.val.end),
              cursor  |-> pre.selection.val.start]
        ELSE [content |-> pre.content, cursor |-> pre.cursor]

\* C24: Paste with a non-empty clipboard removes a non-empty selection,
\* inserts through smart_paste at the resulting cursor and leaves the
\* cursor right after the inserted text: what smart_paste returns is the
\* growth of the text, and the cursor advances by it.  With an empty or
\* unavailable clipboard text, cursor, selection and History are unchanged.
C24_PasteAdvancesByInserted ==
    (trail # <<>> /\ Last(trail).name = "Paste") =>
        LET pre == Last(trail).pre
            base == AfterSelectionRemoved
            growth == Len(content) - Len(base.content)
        IN  IF pre.clipboard.some /\ pre.clipboard.val # <<>>
            THEN /\ growth >= 0
                 /\ content = rope_insert(base.content, base.cursor,
                                  SubSeq(content, base.cursor + 1, base.cursor + growth))
                 /\ cursor = base.cursor + growth
                 /\ Code_smart_paste([TheCode EXCEPT !.content = base.content],
                                     base.cursor, pre.clipboard.val).inserted = growth
            ELSE /\ content = pre.content
                 /\ cursor = pre.cursor
                 /\ selection = pre.selection
                 /\ history = pre.history

\* a paste over a non-empty selection of a block that smart_paste changed
C24_Witness ==
    /\ trail # <<>>
    /\ Last(trail).name = "Paste"
    /\ ActiveSel(Last(trail).pre.selection)
    /\ Last(trail).pre.clipboard = Some(<<SP, SP, "a", NL, SP, SP, "b">>)
    /\ Last(trail).pre.content = <<SP, SP, "x">>
    /\ Last(trail).pre.selection.val = [start |-> 2, end |-> 3]
    /\ content = <<SP, SP, "a", NL, SP, SP, "b">>
    /\ cursor = 7

-----------------------------------------------------------------------------
(* Properties of recording, checked under SpecRecord. *)

\* the step is a call of undo() or redo() that returned
UndoRedoStep ==
    /\ ghost'.calls = ghost.calls + 1
    /\ ghost'.window # "panic"
    /\ trail'[1].name \in {"undo", "redo"}

\* C25: Code::undo() and Code::redo() change only the text, the syntax tree
\* and the index of the History: they push no batch, leave the open batch
\* as it is, never call the change callback, and recording is enabled when
\* they return, also when there was nothing to undo or redo.
C25_UndoRedoTouchOnlyTextAndIndex ==
    [][UndoRedoStep =>
          /\ history'.edits = history.edits
          /\ history'.max_items = history.max_items
          /\ current_batch' = current_batch
          /\ notified' = notified
          /\ applying_history' = TRUE
          /\ lang' = lang
          /\ parser' = parser
          /\ query' = query
          /\ change_callback' = change_callback]_vars

\* an undo() that took a batch back while the open batch held an edit
C25_Witness ==
    /\ trail # <<>>
    /\ trail[1].name = "undo"
    /\ ghost.window # "panic"
    /\ current_batch.edits # <<>>
    /\ history.index < Len(history.edits)
    /\ change_callback
    /\ notified = 1

-----------------------------------------------------------------------------
(* Properties of the re-indentation of smart_paste, checked under SpecPaste. *)

\* the source level tracked after line i of ls: that of the last non-blank
\* line among the lines 2..i, and that of the first line when there is none
TrackedSourceLevel(ls, unit, i) ==
    LET seen == {j \in 2..i : ~IsBlank(ls[j])}
    IN  IF seen = {} THEN LineLevel(ls[1], unit)
        ELSE LineLevel(ls[CHOOSE j \in seen : \A k \in seen : k <= j], unit)

\* the emitted level tracked after line i of ls, starting from level base
RECURSIVE TrackedEmittedLevel(_, _, _, _)
TrackedEmittedLevel(ls, unit, base, i) ==
    IF i = 1 THEN base
    ELSE IF IsBlank(ls[i]) THEN TrackedEmittedLevel(ls, unit, base, i - 1)
    ELSE LET raw == LineLevel(ls[i], unit) - TrackedSourceLevel(ls, unit, i - 1)
             d == IF raw > 1 THEN 1 ELSE IF raw < -1 THEN -1 ELSE raw
             lvl == TrackedEmittedLevel(ls, unit, base, i - 1) + d
         IN  IF lvl < 0 THEN 0 ELSE lvl

\* line i of what the claim says smart_paste emits
EmittedLine(ls, unit, base, i) ==
    IF i = 1 THEN trim_start(ls[1])
    ELSE IF IsBlank(ls[i]) THEN ls[i]
    ELSE Repeat(unit, TrackedEmittedLevel(ls, unit, base, i)) \o trim_start(ls[i])

\* C26: with a non-empty indentation unit smart_paste emits the first
\* pasted line without its leading whitespace and every later non-blank
\* line at max(0, previous emitted level + d) units, d being the line's
\* source level minus the tracked source level clamped to [-1, 1] and the
\* emitted level starting at the indentation level of the destination;
\* blank lines are emitted as they are and change neither level.
C26_PasteRelativeLevels ==
    (trail # <<>> /\ trail[1].name = "smart_paste") =>
        LET pre == trail[1].pre
            c == [TheCode EXCEPT !.content = pre.content]
            unit == Code_indent(c)
            p == Code_point(c, pre.cursor)
            base == Code_indentation_level(c, p.row, p.col)
            ls == lines(pre.clipboard.val)
            emitted == [i \in 1..Len(ls) |-> EmittedLine(ls, unit, base, i)]
        IN  (unit # <<>> /\ ls # <<>>) =>
                content = rope_insert(pre.content, pre.cursor, JoinNL(emitted))

\* a block of three lines going one level in and out again, pasted at a
\* place of level 1
C26_Witness ==
    /\ trail # <<>>
    /\ trail[1].name = "smart_paste"
    /\ trail[1].pre.content = <<SP, SP>>
    /\ trail[1].pre.cursor = 2
    /\ trail[1].pre.clipboard = Some(<<"a", NL, SP, SP, "b", NL, "c">>)
    /\ content = <<SP, SP, "a", NL, SP, SP, SP, SP, "b", NL, SP, SP, "c">>

\* the step is a call of insert() or remove()
InsertRemoveStep ==
    /\ ghost'.calls = ghost.calls + 1
    /\ trail'[1].name \in {"insert", "remove"}

\* C27: insert() and remove() append an Edit to a batch only while a
\* transaction is open (after tx() and before the matching commit()) and
\* recording is enabled; an edit made outside a transaction is never
\* recorded, and so never reaches the History.
C27_RecordedOnlyInsideTransaction ==
    [][InsertRemoveStep =>
          \/ ghost.window = "open" /\ applying_history
          \/ current_batch'.edits = current_batch.edits]_vars

\* the tuple the claim gives for edit e of a batch, e applied to the text t
StatedChange(e, t) ==
    LET start == Code_point([content |-> t], e.offset)
        end == calculate_end_position(start.row, start.col, e.text)
    IN  IF e.kind = "Insert"
        THEN <<start.row, start.col, start.row, start.col, e.text>>
        ELSE <<start.row, start.col, end.row, end.col, <<>>>>

\* C28: with a change callback set, commit() of a non-empty batch calls it
\* exactly once and without failing, with one tuple per recorded edit in
\* recording order: (row, col, row, col, text) for an insert and (start
\* row, start col, end row, end col, "") for a removal, the start being the
\* position the edit's offset had in the text to which the edit was
\* applied; this holds for batches of several edits too.
C28_NotifiesPositionsAtEditTime ==
    (trail # <<>> /\ trail[1].name = "commit" /\ trail[1].texts # <<>>) =>
        /\ ghost.window # "panic"
        /\ trail[1].ret.some
        /\ LET batch == history.edits[history.index].edits
               changes == trail[1].ret.val
           IN  /\ Len(changes) = Len(batch)
               /\ \A i \in 1..Len(batch) :
                     changes[i] = StatedChange(batch[i], trail[1].texts[i])

-----------------------------------------------------------------------------
(* Properties of ToggleComment and UnIndent on the cursor and the text.    *)

\* C29: after ToggleComment on a non-empty selection that spans n lines,
\* with a marker of m characters, the endpoint of the selection nearer the
\* start of the document has moved by m and the farther one by n*m, added
\* when commenting and subtracted when uncommenting, for a forward and for
\* a backward selection; with no selection the cursor moves by m.
C29_ToggleMovesEndpoints ==
    (trail # <<>> /\ Last(trail).name = "ToggleComment" /\ Running) =>
        LET pre == Last(trail).pre
            m == Len(comment(lang))
            sign == IF Len(content) >= Len(pre.content) THEN 1 ELSE -1
        IN  IF ActiveSel(pre.selection)
            THEN LET near == pre.selection.val.start
                     far == pre.selection.val.end
                     n == char_to_line(pre.content, far)
                          - char_to_line(pre.content, near) + 1
                 IN  /\ selection.some
                     /\ selection.val.start = near + sign * m
                     /\ selection.val.end = far + sign * n * m
                     /\ cursor = IF pre.cursor = near THEN selection.val.start
                                 ELSE selection.val.end
            ELSE cursor = pre.cursor + sign * m

\* the number of spaces and tabs a line starts with
IndentationWidth(l) == Len(l) - Len(trim_start(SelectSeq(l, LAMBDA ch : ch # NL)))

\* C30: UnIndent removes from the start of each affected line
\* min(indentation width of the line, one indentation unit) characters: a
\* line indented by less than a unit loses all of its indentation, a line
\* indented by a unit or more loses exactly one unit.
C30_UnIndentRemovesUpToOneUnit ==
    (trail # <<>> /\ Last(trail).name = "UnIndent" /\ Running) =>
        LET pre == Last(trail).pre
            unit == indent(lang)
            first == char_to_line(pre.content,
                        IF ActiveSel(pre.selection) THEN pre.selection.val.start
                        ELSE pre.cursor)
            last == char_to_line(pre.content,
                        IF ActiveSel(pre.selection) THEN pre.selection.val.end
                        ELSE pre.cursor)
        IN  /\ len_lines(content) = len_lines(pre.content)
            /\ \A r \in 0..(len_lines(pre.content) - 1) :
                  LET old == line(pre.content, r)
                      k == Min(IndentationWidth(old), Len(unit))
                  IN  line(content, r) =
                          IF r >= first /\ r <= last
                          THEN SubSeq(old, k + 1, Len(old))
                          ELSE old

-----------------------------------------------------------------------------
(* Properties of DeleteLine, checked under Spec. *)

\* C31: DeleteLine removes the whole line of the cursor with its line
\* break and leaves the cursor at the former start of that line with no
\* selection; it changes nothing (text, cursor, selection, History) only
\* when the cursor is on an empty last line.
C31_DeleteLineRemovesCursorLine ==
    (trail # <<>> /\ Last(trail).name = "DeleteLine" /\ Running) =>
        LET pre == Last(trail).pre
            row == char_to_line(pre.content, pre.cursor)
            from == line_to_char(pre.content, row)
            to == line_to_char(pre.content, row + 1)
        IN  IF from = Len(pre.content)
            THEN /\ content = pre.content
                 /\ cursor = pre.cursor
                 /\ selection = pre.selection
                 /\ history = pre.history
            ELSE /\ content = rope_remove(pre.content, from, to)
                 /\ cursor = from
                 /\ selection = None

-----------------------------------------------------------------------------
(* Properties of the highlight cache, checked under SpecCache. *)

\* C32: whenever an action changes the text (a mutating action that
\* commits a batch, a successful Undo or Redo) the highlight cache is
\* empty when the action returns, so no result memoized for an earlier
\* text is there when the next event is handled.
C32_CacheClearedOnTextChange ==
    [][/\ content' # content => highlights_cache' = {}
       /\ \A h \in highlights_cache' : h.of = content']_vars

\* the text was rendered and memoized, and then changed by an action
C32_Witness ==
    /\ trail # <<>>
    /\ Running
    /\ ghost.events = 1
    /\ ghost.calls = 1
    /\ Last(trail).pre.content # content
    /\ highlights_cache = {}

-----------------------------------------------------------------------------
(* Properties of the selection under movements with shift (SpecShift). *)

\* C33: starting with no selection and the cursor at c0, after any
\* sequence of movements with shift a selection that is present is
\* [min(c0, cursor), max(c0, cursor)]: the anchor stays at c0, also when
\* the cursor crosses back over it.
C33_ShiftSelectionKeepsAnchor ==
    (trail # <<>> /\ trail[1].name = "new") =>
        LET c0 == trail[1].pre.cursor
        IN  selection.some =>
                selection.val = [start |-> IF c0 < cursor THEN c0 ELSE cursor,
                                 end   |-> IF c0 < cursor THEN cursor ELSE c0]

\* the cursor went right of the anchor and came back across it
C33_Witness ==
    /\ Len(trail) = 4
    /\ trail[1].name = "new"
    /\ trail[2].name = "MoveRight"
    /\ trail[3].name = "MoveLeft"
    /\ trail[4].name = "MoveLeft"
    /\ trail[1].pre.cursor = 1
    /\ cursor = 0
    /\ selection = Some([start |-> 0, end |-> 1])

-----------------------------------------------------------------------------
(* Properties of the cursor and the selection after any action (Spec). *)

\* C34: after any sequence of actions the cursor and, when there is a
\* selection, both of its bounds are at most the length of the text.
C34_CursorAndSelectionInText ==
    Running =>
        /\ cursor <= Len(content)
        /\ selection.some =>
              /\ selection.val.start <= Len(content)
              /\ selection.val.end <= Len(content)

\* C35: whenever the Editor holds a non-empty selection the cursor is one
\* of its two bounds, so that selection_anchor() gives the other bound;
\* this holds after every action, SelectAll included.
C35_CursorOnSelectionBound ==
    (Running /\ ActiveSel(selection)) =>
        \/ cursor = selection.val.start
        \/ cursor = selection.val.end

-----------------------------------------------------------------------------
(* Properties relating two runs of an action, checked under Spec. *)

\* the Editor after the action called `name` is applied to e
ActionNamed(name, e) ==
    CASE name = "InsertText"    -> InsertText_apply(e, CHOOSE t \in TypedTexts : TRUE)
      [] name = "InsertNewline" -> InsertNewline_apply(e)
      [] name = "Delete"        -> Delete_apply(e)
      [] name = "ToggleComment" -> ToggleComment_apply(e)
      [] name = "Indent"        -> Indent_apply(e)
      [] name = "UnIndent"      -> UnIndent_apply(e)
      [] name = "SelectAll"     -> SelectAll_apply(e)
      [] name = "Duplicate"     -> Duplicate_apply(e)
      [] name = "DeleteLine"    -> DeleteLine_apply(e)
      [] name = "Cut"           -> Cut_apply(e)
      [] name = "Copy"          -> Copy_apply(e)
      [] name = "Paste"         -> Paste_apply(e)
      [] name = "Undo"          -> Undo_apply(e).e
      [] name = "Redo"          -> Redo_apply(e).e

\* the Editor the last action of the trail was applied to, without its selection
BeforeWithoutSelection ==
    LET pre == Last(trail).pre
    IN  [TheEditor EXCEPT !.code.content = pre.content,
                          !.code.history = pre.history,
                          !.code.current_batch = NoBatch,
                          !.cursor = pre.cursor,
                          !.selection = None,
                          !.clipboard = pre.clipboard]

\* the edits of the batches of a History, and its index
RecordedEdits(h) ==
    [index |-> h.index, edits |-> [i \in 1..Len(h.edits) |-> h.edits[i].edits]]

\* C36: every action treats an empty selection (start = end) like no
\* selection: from the same text and cursor it gives the same text, the
\* same cursor and the same History.
C36_EmptySelectionLikeNone ==
    (/\ trail # <<>>
     /\ Running
     /\ Last(trail).pre.selection.some
     /\ Last(trail).pre.selection.val.start = Last(trail).pre.selection.val.end) =>
        LET other == ActionNamed(Last(trail).name, BeforeWithoutSelection)
        IN  /\ content = other.code.content
            /\ cursor = other.cursor
            /\ RecordedEdits(history) = RecordedEdits(other.code.history)

\* C37: ToggleComment never moves the cursor or an endpoint of the
\* selection to another line: each is on the row it was on before, when
\* commenting and when uncommenting.
C37_ToggleKeepsRows ==
    (trail # <<>> /\ Last(trail).name = "ToggleComment" /\ Running) =>
        LET pre == Last(trail).pre
        IN  /\ char_to_line(content, cursor) = char_to_line(pre.content, pre.cursor)
            /\ ActiveSel(pre.selection) =>
                  /\ selection.some
                  /\ char_to_line(content, selection.val.start)
                        = char_to_line(pre.content, pre.selection.val.start)
                  /\ char_to_line(content, selection.val.end)
                        = char_to_line(pre.content, pre.selection.val.end)

-----------------------------------------------------------------------------
(* Properties of Indent followed by UnIndent, checked under SpecRound. *)

\* C38: Indent followed at once by UnIndent restores the text, for any
\* text, cursor and selection, a selection set by SelectAll included.
C38_IndentUnIndentRestores ==
    (trail # <<>> /\ Last(trail).name = "UnIndent") =>
        content = trail[1].pre.content

-----------------------------------------------------------------------------
(* Properties of UnIndent and smart_paste on what they leave alone. *)

\* C39: when UnIndent finds no affected line with a whole unit to remove,
\* so that no edit is recorded and no batch is pushed, the cursor and the
\* selection are left as they were.
C39_UnIndentNothingToRemove ==
    (/\ trail # <<>>
     /\ Last(trail).name = "UnIndent"
     /\ Running
     /\ content = Last(trail).pre.content
     /\ history = Last(trail).pre.history) =>
        /\ cursor = Last(trail).pre.cursor
        /\ selection = Last(trail).pre.selection

\* the number of line breaks in a text
LineBreaks(t) == Cardinality({i \in 1..Len(t) : t[i] = NL})

\* C40: smart_paste inserts as many line breaks as the pasted text has:
\* the number of line breaks of the buffer grows by the number of line
\* breaks of the pasted text, also when that text ends with a line break
\* or is a line break only.
C40_PasteKeepsLineBreaks ==
    (trail # <<>> /\ trail[1].name = "smart_paste") =>
        LineBreaks(content)
            = LineBreaks(trail[1].pre.content) + LineBreaks(trail[1].pre.clipboard.val)

====
